---- MODULE Spec2Model ----
(***************************************************************************)
(* Age of Agents: the turn engine (engine/state.py, engine/validator.py,   *)
(* engine/economy.py, engine/combat.py, engine/resolver.py) and the match  *)
(* loop (main.py, run_game), as a state machine.                           *)
(*                                                                         *)
(* One tick of run_turn is the chain of steps                              *)
(*   StartTurn (economy, observations, both decision calls started)        *)
(*   AgentReturn(A), AgentReturn(B) in either order (asyncio.gather)       *)
(*   ValidateActions, ApplyEffects, ResolveCombat, CheckVictory, EndTurn   *)
(* and the match loop adds LoopExit and Conclude.                          *)
(***************************************************************************)
EXTENDS Integers, Sequences, FiniteSets, TLC

(***************************************************************************)
(* Rules catalog: config.py                                                *)
(***************************************************************************)
TURN_LIMIT == 50

ZONES == <<"Base_A", "Top_A", "Mid_A", "Bot_A", "Top_B", "Mid_B", "Bot_B", "Base_B">>

ZoneSet == {ZONES[i] : i \in DOMAIN ZONES}

ADJACENCY ==
  [ Base_A |-> {"Top_A", "Mid_A", "Bot_A"},
    Top_A  |-> {"Base_A", "Mid_A", "Top_B"},
    Mid_A  |-> {"Base_A", "Top_A", "Bot_A", "Mid_B"},
    Bot_A  |-> {"Base_A", "Mid_A", "Bot_B"},
    Top_B  |-> {"Top_A", "Mid_B", "Base_B"},
    Mid_B  |-> {"Mid_A", "Top_B", "Bot_B", "Base_B"},
    Bot_B  |-> {"Bot_A", "Mid_B", "Base_B"},
    Base_B |-> {"Top_B", "Mid_B", "Bot_B"} ]

Resources == {"food", "wood", "gold"}

STARTING_RESOURCES == [food |-> 200, wood |-> 150, gold |-> 50]

GOLD_TRICKLE == 5

VILLAGER_TASK_RATES == [food |-> 15, wood |-> 12, gold |-> 8]

VILLAGER_IDLE_RATES == [food |-> 3, wood |-> 2]

TOWN_CENTER_HP == 200

MAX_AGE == 4

\* A cost is a mapping over the resource kinds the table names (dict keys).
AGE_ADVANCE_COSTS ==
  [ n \in {2, 3, 4} |->
      CASE n = 2 -> [food |-> 400, wood |-> 200]
        [] n = 3 -> [food |-> 500, wood |-> 300, gold |-> 200]
        [] n = 4 -> [wood |-> 800, gold |-> 500] ]

UNIT_AGE_REQUIREMENT ==
  [Villager |-> 1, Militia |-> 2, Archer |-> 2, Knight |-> 3, Catapult |-> 3]

BUILDING_AGE_REQUIREMENT ==
  [Barracks |-> 2, Range |-> 2, Wall |-> 3, Tower |-> 3, Blacksmith |-> 3]

UNITS ==
  [ Villager |-> [cost |-> [food |-> 50, wood |-> 0, gold |-> 0],
                  hp |-> 5, atk |-> 1, counter |-> "None", train_turns |-> 1],
    Militia  |-> [cost |-> [food |-> 60, wood |-> 0, gold |-> 0],
                  hp |-> 8, atk |-> 3, counter |-> "None", train_turns |-> 1],
    Archer   |-> [cost |-> [food |-> 0, wood |-> 60, gold |-> 0],
                  hp |-> 6, atk |-> 4, counter |-> "Infantry", train_turns |-> 2],
    Knight   |-> [cost |-> [food |-> 0, wood |-> 0, gold |-> 80],
                  hp |-> 15, atk |-> 6, counter |-> "Archer", train_turns |-> 3],
    Catapult |-> [cost |-> [food |-> 0, wood |-> 50, gold |-> 100],
                  hp |-> 10, atk |-> 12, counter |-> "Building", train_turns |-> 4] ]

UnitTypes == DOMAIN UNITS

INFANTRY_TYPES == {"Villager", "Militia"}

BUILDINGS ==
  [ Barracks   |-> [cost |-> [food |-> 0, wood |-> 100, gold |-> 0], hp |-> 50,
                    damage_per_turn |-> 0, age |-> 2],
    Range      |-> [cost |-> [food |-> 0, wood |-> 80, gold |-> 0], hp |-> 40,
                    damage_per_turn |-> 0, age |-> 2],
    Wall       |-> [cost |-> [food |-> 0, wood |-> 50, gold |-> 0], hp |-> 100,
                    damage_per_turn |-> 0, age |-> 3],
    Tower      |-> [cost |-> [food |-> 0, wood |-> 80, gold |-> 50], hp |-> 60,
                    damage_per_turn |-> 8, age |-> 3],
    Blacksmith |-> [cost |-> [food |-> 0, wood |-> 150, gold |-> 100], hp |-> 0,
                    damage_per_turn |-> 0, age |-> 3] ]

BuildingTypes == DOMAIN BUILDINGS

\* Building kinds whose hit points are tracked in building_hp (resolver.py:165).
TrackedBuildings == {"Wall", "Tower"}

UPGRADES ==
  [ attack_1 |-> [cost |-> [food |-> 200, wood |-> 0, gold |-> 100],
                  attack_bonus |-> 2, armor_bonus |-> 0, age |-> 3,
                  requires_building |-> "Blacksmith", requires_upgrade |-> "None"],
    armor_1  |-> [cost |-> [food |-> 0, wood |-> 200, gold |-> 100],
                  attack_bonus |-> 0, armor_bonus |-> 3, age |-> 3,
                  requires_building |-> "Blacksmith", requires_upgrade |-> "None"],
    attack_2 |-> [cost |-> [food |-> 0, wood |-> 0, gold |-> 400],
                  attack_bonus |-> 3, armor_bonus |-> 0, age |-> 4,
                  requires_building |-> "Blacksmith", requires_upgrade |-> "attack_1"],
    armor_2  |-> [cost |-> [food |-> 0, wood |-> 300, gold |-> 200],
                  attack_bonus |-> 0, armor_bonus |-> 5, age |-> 4,
                  requires_building |-> "Blacksmith", requires_upgrade |-> "armor_1"] ]

UpgradeNames == DOMAIN UPGRADES

UNIT_VALUE ==
  [Villager |-> 25, Militia |-> 30, Archer |-> 30, Knight |-> 40, Catapult |-> 75]

BUILDING_VALUE == 10

\* COUNTER_BONUS = 1.5, kept as the fraction 3/2: damage is counted in halves.
COUNTER_BONUS_X2 == 3

Pids == {"A", "B"}

Other(pid) == IF pid = "A" THEN "B" ELSE "A"

(***************************************************************************)
(* Small helpers                                                           *)
(***************************************************************************)
Min(a, b) == IF a <= b THEN a ELSE b

Max(a, b) == IF a >= b THEN a ELSE b

RECURSIVE SumOver(_, _)
\* Sum of f[x] for x in the finite set S.
SumOver(f, S) ==
  IF S = {} THEN 0
  ELSE LET x == CHOOSE y \in S : TRUE IN f[x] + SumOver(f, S \ {x})


(***************************************************************************)
(* PlayerState queries: engine/state.py                                    *)
(***************************************************************************)
unit_count(player, zone, unit_type) == player.units[zone][unit_type]

any_building(player, building) ==
  \E z \in ZoneSet : \E i \in DOMAIN player.buildings[z] : player.buildings[z][i] = building

\* sum(zone_units.get("Villager", 0) for zone_units in player.units.values())
TotalVillagers(player) ==
  SumOver([z \in ZoneSet |-> player.units[z]["Villager"]], ZoneSet)

\* Units of one type over all zones.
TotalOfType(player, u) == SumOver([z \in ZoneSet |-> player.units[z][u]], ZoneSet)

\* {k: v for k, v in player.units[zone].items() if v > 0}: the types present.
Present(player, zone) == {u \in UnitTypes : player.units[zone][u] > 0}

\* A score that counts the units once instead of twice.
score_units_once(player) ==
  LET unit_score ==
        SumOver([u \in UnitTypes |-> UNIT_VALUE[u] * TotalOfType(player, u)], UnitTypes)
      building_score ==
        SumOver([z \in ZoneSet |-> Len(player.buildings[z]) * BUILDING_VALUE], ZoneSet)
  IN player.resources_banked + unit_score + building_score

score(player) ==
  LET unit_score ==
        SumOver([u \in UnitTypes |-> UNIT_VALUE[u] * TotalOfType(player, u)], UnitTypes)
      building_score ==
        SumOver([z \in ZoneSet |-> Len(player.buildings[z]) * BUILDING_VALUE], ZoneSet)
  IN player.resources_banked + unit_score * 2 + building_score

(***************************************************************************)
(* Untrusted values as the decision call returns them (parsed JSON).  A    *)
(* value carries its Python type in t; a dict's v is a mapping from keys.  *)
(***************************************************************************)
PyNone == [t |-> "none"]

PyInt(n) == [t |-> "int", v |-> n]

\* A number that is no int (n + 0.5).
PyFloat(n) == [t |-> "float", v |-> n]

PyBool(b) == [t |-> "bool", v |-> b]

PyStr(s) == [t |-> "str", v |-> s]

PyList(seq) == [t |-> "list", v |-> seq]

PyDict(map) == [t |-> "dict", v |-> map]

EmptyMap == [k \in {} |-> PyNone]

\* d.get(key, default) on a dict.
Get(d, key, default) == IF key \in DOMAIN d.v THEN d.v[key] ELSE default

\* isinstance(x, int): bool is a subclass of int.
IsInt(x) == x.t \in {"int", "bool"}

IntVal(x) == IF x.t = "bool" THEN (IF x.v THEN 1 ELSE 0) ELSE x.v

\* `x in some_dict` and `x in some_set` hash x: a list or a dict raises TypeError.
Hashable(x) == x.t \notin {"list", "dict"}

\* x is the string naming a member of the table's key set.
IsKey(x, keys) == x.t = "str" /\ x.v \in keys

\* bool(x)
Truthy(x) ==
  CASE x.t = "none" -> FALSE
    [] x.t = "bool" -> x.v
    [] x.t = "int" -> x.v # 0
    [] x.t = "float" -> TRUE
    [] x.t = "str" -> x.v # ""
    [] x.t = "list" -> Len(x.v) > 0
    [] x.t = "dict" -> DOMAIN x.v # {}

(***************************************************************************)
(* Validator: engine/validator.py                                          *)
(***************************************************************************)
EMPTY_ACTION ==
  [ train |-> <<>>, build |-> <<>>, move |-> <<>>, attack |-> <<>>,
    advance_age |-> FALSE, task_villagers |-> [r \in Resources |-> 0],
    research |-> <<>> ]

_can_afford(resources, cost) == \A r \in DOMAIN cost : resources[r] >= cost[r]

RECURSIVE MaxAffordableOver(_, _, _, _)
MaxAffordableOver(resources, cost, max_count, keys) ==
  IF keys = {} THEN max_count
  ELSE LET r == CHOOSE k \in keys : TRUE
           m == IF cost[r] > 0 THEN Min(max_count, resources[r] \div cost[r])
                ELSE max_count
       IN MaxAffordableOver(resources, cost, m, keys \ {r})

\* A _max_affordable that does not look at the ledger.
_max_affordable_unclamped(resources, cost, requested) == requested

_max_affordable(resources, cost, requested) ==
  Max(0, MaxAffordableOver(resources, cost, requested, DOMAIN cost))

\* The outcome of one loop iteration over a raw list: the entry is kept, the
\* iteration continues without it, or the membership test raises TypeError.
Keep(e) == [o |-> "keep", e |-> e]

Skip == [o |-> "skip"]

Raise == [o |-> "raise"]

\* The outcomes of all iterations folded: the first raise aborts the call.
Collect(outs) ==
  IF \E i \in DOMAIN outs : outs[i].o = "raise"
  THEN [raised |-> TRUE, val |-> <<>>]
  ELSE LET kept == SelectSeq(outs, LAMBDA x : x.o = "keep")
       IN [raised |-> FALSE, val |-> [i \in DOMAIN kept |-> kept[i].e]]

Returned(v) == [raised |-> FALSE, val |-> v]

TrainItem(item, player) ==
  IF item.t # "dict" THEN Skip
  ELSE LET unit == Get(item, "unit", PyNone)
           count == Get(item, "count", PyInt(1))
       IN IF ~Hashable(unit) THEN Raise
          ELSE IF ~IsKey(unit, UnitTypes) THEN Skip
          ELSE IF ~IsInt(count) \/ IntVal(count) < 1 THEN Skip
          ELSE IF player.age < UNIT_AGE_REQUIREMENT[unit.v] THEN Skip
          ELSE IF unit.v \in {"Militia", "Knight"} /\ ~any_building(player, "Barracks")
            THEN Skip
          ELSE IF unit.v = "Archer" /\ ~any_building(player, "Range") THEN Skip
          ELSE LET max_affordable ==
                     _max_affordable(player.resources, UNITS[unit.v].cost, IntVal(count))
               IN IF max_affordable < 1 THEN Skip
                  ELSE Keep([unit |-> unit.v, count |-> max_affordable])

_validate_train(items, player) ==
  IF items.t # "list" THEN Returned(<<>>)
  ELSE Collect([i \in DOMAIN items.v |-> TrainItem(items.v[i], player)])

\* A BuildItem that does not look at the player's age.
BuildItem_any_age(item, player) ==
  IF item.t # "dict" THEN Skip
  ELSE LET building == Get(item, "building", PyNone)
       IN IF ~Hashable(building) THEN Raise
          ELSE IF ~IsKey(building, BuildingTypes) THEN Skip
          ELSE IF ~_can_afford(player.resources, BUILDINGS[building.v].cost) THEN Skip
          ELSE Keep([building |-> building.v])

BuildItem(item, player) ==
  IF item.t # "dict" THEN Skip
  ELSE LET building == Get(item, "building", PyNone)
       IN IF ~Hashable(building) THEN Raise
          ELSE IF ~IsKey(building, BuildingTypes) THEN Skip
          ELSE IF player.age < BUILDING_AGE_REQUIREMENT[building.v] THEN Skip
          ELSE IF ~_can_afford(player.resources, BUILDINGS[building.v].cost) THEN Skip
          ELSE Keep([building |-> building.v])

_validate_build(items, player) ==
  IF items.t # "list" THEN Returned(<<>>)
  ELSE Collect([i \in DOMAIN items.v |-> BuildItem(items.v[i], player)])

\* A MoveItem that does not look at the topology.
MoveItem_any_zone(item, player) ==
  IF item.t # "dict" THEN Skip
  ELSE LET unit == Get(item, "unit", PyNone)
           count == Get(item, "count", PyInt(1))
           from_zone == Get(item, "from", PyNone)
           to_zone == Get(item, "to", PyNone)
       IN IF ~Hashable(unit) THEN Raise
          ELSE IF ~IsKey(unit, UnitTypes) THEN Skip
          ELSE IF ~Hashable(from_zone) THEN Raise
          ELSE IF ~IsKey(from_zone, ZoneSet) THEN Skip
          ELSE IF ~Hashable(to_zone) THEN Raise
          ELSE IF ~IsKey(to_zone, ZoneSet) THEN Skip
          ELSE IF ~IsInt(count) \/ IntVal(count) < 1 THEN Skip
          ELSE LET available == unit_count(player, from_zone.v, unit.v)
               IN IF available < 1 THEN Skip
                  ELSE Keep([unit |-> unit.v, count |-> Min(IntVal(count), available),
                             from |-> from_zone.v, to |-> to_zone.v])

MoveItem(item, player) ==
  IF item.t # "dict" THEN Skip
  ELSE LET unit == Get(item, "unit", PyNone)
           count == Get(item, "count", PyInt(1))
           from_zone == Get(item, "from", PyNone)
           to_zone == Get(item, "to", PyNone)
       IN IF ~Hashable(unit) THEN Raise
          ELSE IF ~IsKey(unit, UnitTypes) THEN Skip
          ELSE IF ~Hashable(from_zone) THEN Raise
          ELSE IF ~IsKey(from_zone, ZoneSet) THEN Skip
          ELSE IF ~Hashable(to_zone) THEN Raise
          ELSE IF ~IsKey(to_zone, ZoneSet) THEN Skip
          ELSE IF to_zone.v \notin ADJACENCY[from_zone.v] THEN Skip
          ELSE IF ~IsInt(count) \/ IntVal(count) < 1 THEN Skip
          ELSE LET available == unit_count(player, from_zone.v, unit.v)
               IN IF available < 1 THEN Skip
                  ELSE Keep([unit |-> unit.v, count |-> Min(IntVal(count), available),
                             from |-> from_zone.v, to |-> to_zone.v])

_validate_move(items, player) ==
  IF items.t # "list" THEN Returned(<<>>)
  ELSE Collect([i \in DOMAIN items.v |-> MoveItem(items.v[i], player)])

\* A _validate_advance_age without the test for the last age.
_validate_advance_age_uncapped(flag, player) ==
  IF ~Truthy(flag) THEN FALSE
  ELSE IF player.age + 1 \in DOMAIN AGE_ADVANCE_COSTS
    THEN _can_afford(player.resources, AGE_ADVANCE_COSTS[player.age + 1])
  ELSE TRUE

_validate_advance_age(flag, player) ==
  IF ~Truthy(flag) THEN FALSE
  ELSE IF player.age >= MAX_AGE THEN FALSE
  ELSE _can_afford(player.resources, AGE_ADVANCE_COSTS[player.age + 1])

\* `scale = total_villagers / total_tasked` is a float and so is `n * scale`.
\* These are the (n, total, tasked) with total < tasked <= 100, total <= 22 and
\* n <= tasked for which the float product is below the integer n * total /
\* tasked that the exact product is, so that int() truncates to one less.
FloatShort ==
  { <<49, 1, 49>>, <<98, 1, 98>>, <<49, 2, 49>>, <<49, 2, 98>>,
    <<98, 2, 98>>, <<47, 3, 47>>, <<94, 3, 94>>, <<49, 4, 49>>,
    <<49, 4, 98>>, <<98, 4, 98>>, <<77, 5, 77>>, <<47, 6, 47>>,
    <<47, 6, 94>>, <<94, 6, 94>>, <<55, 7, 55>>, <<71, 7, 71>>,
    <<83, 7, 83>>, <<95, 7, 95>>, <<97, 7, 97>>, <<49, 8, 49>>,
    <<49, 8, 98>>, <<98, 8, 98>>, <<77, 10, 77>>, <<69, 11, 69>>,
    <<47, 12, 47>>, <<47, 12, 94>>, <<94, 12, 94>>, <<23, 13, 23>>,
    <<45, 13, 45>>, <<46, 13, 46>>, <<90, 13, 90>>, <<92, 13, 92>>,
    <<93, 13, 93>>, <<55, 14, 55>>, <<71, 14, 71>>, <<83, 14, 83>>,
    <<95, 14, 95>>, <<97, 14, 97>>, <<22, 15, 22>>, <<26, 15, 26>>,
    <<44, 15, 44>>, <<52, 15, 52>>, <<55, 15, 55>>, <<88, 15, 88>>,
    <<49, 16, 49>>, <<49, 16, 98>>, <<98, 16, 98>>, <<55, 18, 66>>,
    <<77, 20, 77>>, <<55, 21, 77>>, <<79, 21, 79>>, <<69, 22, 69>> }

\* int(n * scale), for total and tasked in the range of FloatShort.
ScaleDown(n, total, tasked) ==
  IF <<n, total, tasked>> \in FloatShort THEN (n * total) \div tasked - 1
  ELSE (n * total) \div tasked

_validate_task_villagers(tasks, player) ==
  IF tasks.t # "dict" THEN [r \in Resources |-> 0]
  ELSE LET cleaned ==
             [r \in Resources |->
                IF r \in DOMAIN tasks.v /\ IsInt(tasks.v[r]) /\ IntVal(tasks.v[r]) >= 0
                THEN IntVal(tasks.v[r]) ELSE 0]
           total_villagers == TotalVillagers(player)
           total_tasked == SumOver(cleaned, Resources)
       IN IF total_tasked > total_villagers /\ total_tasked > 0
          THEN [r \in Resources |-> ScaleDown(cleaned[r], total_villagers, total_tasked)]
          ELSE cleaned

\* A ResearchItem that does not look at the prerequisite upgrade.
ResearchItem_no_prerequisite(item, player) ==
  IF item.t # "dict" THEN Skip
  ELSE LET upgrade_name == Get(item, "upgrade", PyNone)
       IN IF ~Hashable(upgrade_name) THEN Raise
          ELSE IF ~IsKey(upgrade_name, UpgradeNames) THEN Skip
          ELSE IF \E i \in DOMAIN player.upgrades : player.upgrades[i] = upgrade_name.v
            THEN Skip
          ELSE LET upg == UPGRADES[upgrade_name.v]
               IN IF player.age < upg.age THEN Skip
                  ELSE IF upg.requires_building # "None"
                          /\ ~any_building(player, upg.requires_building) THEN Skip
                  ELSE IF ~_can_afford(player.resources, upg.cost) THEN Skip
                  ELSE Keep([upgrade |-> upgrade_name.v])

ResearchItem(item, player) ==
  IF item.t # "dict" THEN Skip
  ELSE LET upgrade_name == Get(item, "upgrade", PyNone)
       IN IF ~Hashable(upgrade_name) THEN Raise
          ELSE IF ~IsKey(upgrade_name, UpgradeNames) THEN Skip
          ELSE IF \E i \in DOMAIN player.upgrades : player.upgrades[i] = upgrade_name.v
            THEN Skip
          ELSE LET upg == UPGRADES[upgrade_name.v]
               IN IF player.age < upg.age THEN Skip
                  ELSE IF upg.requires_building # "None"
                          /\ ~any_building(player, upg.requires_building) THEN Skip
                  ELSE IF upg.requires_upgrade # "None"
                          /\ ~\E i \in DOMAIN player.upgrades :
                                 player.upgrades[i] = upg.requires_upgrade THEN Skip
                  ELSE IF ~_can_afford(player.resources, upg.cost) THEN Skip
                  ELSE Keep([upgrade |-> upgrade_name.v])

_validate_research(items, player) ==
  IF items.t # "list" THEN Returned(<<>>)
  ELSE Collect([i \in DOMAIN items.v |-> ResearchItem(items.v[i], player)])

\* The dict validate_action returns (`clean`, or a copy of EMPTY_ACTION), or
\* raised when one of the field validators raises: nothing catches the
\* TypeError on the way out.
clean(raw, player) ==
  IF raw.t # "dict" THEN Returned(EMPTY_ACTION)
  ELSE LET train == _validate_train(Get(raw, "train", PyList(<<>>)), player)
           build == _validate_build(Get(raw, "build", PyList(<<>>)), player)
           move == _validate_move(Get(raw, "move", PyList(<<>>)), player)
           research == _validate_research(Get(raw, "research", PyList(<<>>)), player)
       IN IF train.raised \/ build.raised \/ move.raised \/ research.raised
          THEN [raised |-> TRUE, val |-> EMPTY_ACTION]
          ELSE Returned(
                 [ train |-> train.val, build |-> build.val, move |-> move.val,
                   attack |-> <<>>,
                   advance_age |->
                     _validate_advance_age(Get(raw, "advance_age", PyBool(FALSE)), player),
                   task_villagers |->
                     _validate_task_villagers(Get(raw, "task_villagers", PyDict(EmptyMap)),
                                              player),
                   research |-> research.val ])

\* A validate_action that writes the cleaned villager assignment into the
\* player it was given.
validate_action_storing(raw, player) ==
  LET c == clean(raw, player)
  IN [raised |-> c.raised, val |-> c.val,
      player |-> IF c.raised THEN player
                 ELSE [player EXCEPT !.villager_tasks = c.val.task_villagers]]

\* validate_action(raw, player, turn): what it returns or that it raised, and
\* the PlayerState object as the call leaves it.  No validator assigns to an
\* attribute of the player or to an element of its containers.
validate_action(raw, player) ==
  LET c == clean(raw, player)
  IN [raised |-> c.raised, val |-> c.val, player |-> player]


(***************************************************************************)
(* GameState: engine/state.py.  g is a record [turn, players, log, winner].*)
(***************************************************************************)
\* gs.add_log: the entry is tagged with the turn it is written in.
add_log(g, kind, pid, info) ==
  [g EXCEPT !.log = Append(@, [turn |-> g.turn, kind |-> kind, pid |-> pid, info |-> info])]

\* A Deduct that takes the cost off the ledger and banks nothing.
Deduct_unbanked(player, cost) ==
  [player EXCEPT
     !.resources = [r \in Resources |-> IF r \in DOMAIN cost THEN @[r] - cost[r] ELSE @[r]]]

\* player.resources[res] -= amount; player.resources_banked += amount, for
\* every (res, amount) of cost.
Deduct(player, cost) ==
  [player EXCEPT
     !.resources = [r \in Resources |-> IF r \in DOMAIN cost THEN @[r] - cost[r] ELSE @[r]],
     !.resources_banked = @ + SumOver(cost, DOMAIN cost)]

(***************************************************************************)
(* Economy: engine/economy.py                                              *)
(***************************************************************************)
\* The assignment income is computed from: the stored one, scaled down when it
\* exceeds the villagers owned, emptied when there is no villager.
EffectiveTasks(player) ==
  LET total_villagers == TotalVillagers(player)
      total_tasked == SumOver(player.villager_tasks, Resources)
  IN IF total_tasked > total_villagers /\ total_villagers > 0
     THEN [r \in Resources |->
             ScaleDown(player.villager_tasks[r], total_villagers, total_tasked)]
     ELSE IF total_villagers = 0 THEN [r \in Resources |-> 0]
     ELSE player.villager_tasks

\* An economy in which villagers without a task gather nothing.
Income_without_idle(player) ==
  LET tasks == EffectiveTasks(player)
  IN [ food |-> tasks["food"] * VILLAGER_TASK_RATES["food"],
       wood |-> tasks["wood"] * VILLAGER_TASK_RATES["wood"],
       gold |-> tasks["gold"] * VILLAGER_TASK_RATES["gold"] + GOLD_TRICKLE ]

Income(player) ==
  LET tasks == EffectiveTasks(player)
      idle_villagers == Max(0, TotalVillagers(player) - SumOver(tasks, Resources))
  IN [ food |-> tasks["food"] * VILLAGER_TASK_RATES["food"]
                  + idle_villagers * VILLAGER_IDLE_RATES["food"],
       wood |-> tasks["wood"] * VILLAGER_TASK_RATES["wood"]
                  + idle_villagers * VILLAGER_IDLE_RATES["wood"],
       gold |-> tasks["gold"] * VILLAGER_TASK_RATES["gold"] + GOLD_TRICKLE ]

_apply_income(g, pid) ==
  LET player == g.players[pid]
      gain == Income(player)
      g1 == [g EXCEPT !.players[pid].resources = [r \in Resources |-> @[r] + gain[r]]]
  IN add_log(g1, "income", pid, <<gain["food"], gain["wood"], gain["gold"]>>)

RECURSIVE DecrementFrom(_, _, _, _)
\* The loop of _decrement_queue from item i on; still is still_training.
DecrementFrom(g, pid, i, still) ==
  LET player == g.players[pid]
      queue == player.production_queue
  IN IF i > Len(queue) THEN [g EXCEPT !.players[pid].production_queue = still]
     ELSE LET item == [queue[i] EXCEPT !.turns_left = @ - 1]
          IN IF item.turns_left <= 0
             THEN DecrementFrom(
                    add_log([g EXCEPT !.players[pid].units[player.base_zone][item.unit_type]
                                        = @ + 1],
                            "trained", pid, <<item.unit_type>>),
                    pid, i + 1, still)
             ELSE DecrementFrom(g, pid, i + 1, Append(still, item))

\* A _decrement_queue that hands the remaining items back last one first.
_decrement_queue_reversed(g, pid) ==
  LET after == DecrementFrom(g, pid, 1, <<>>)
      queue == after.players[pid].production_queue
  IN [after EXCEPT !.players[pid].production_queue =
                     [i \in DOMAIN queue |-> queue[Len(queue) + 1 - i]]]

_decrement_queue(g, pid) == DecrementFrom(g, pid, 1, <<>>)

economy_tick(g) ==
  _decrement_queue(_apply_income(_decrement_queue(_apply_income(g, "A"), "A"), "B"), "B")

(***************************************************************************)
(* Effect appliers: engine/resolver.py, validator.deduct_costs             *)
(***************************************************************************)
_process_advance_age(g, pid, action) ==
  IF ~action.advance_age THEN g
  ELSE LET player == g.players[pid]
           next_age == player.age + 1
           cost == IF next_age \in DOMAIN AGE_ADVANCE_COSTS
                   THEN AGE_ADVANCE_COSTS[next_age] ELSE <<>>
       IN IF ~_can_afford(player.resources, cost) THEN g
          ELSE add_log([g EXCEPT !.players[pid] = [Deduct(player, cost) EXCEPT !.age = next_age]],
                       "advanced", pid, <<next_age>>)

\* A _process_task_villagers that stores the counts of the kinds the map
\* names and keeps the stored counts of the others.
_process_task_villagers_merging(g, pid, action) ==
  LET tasks == action.task_villagers
      merged == [r \in Resources |->
                   IF tasks[r] > 0 THEN tasks[r] ELSE g.players[pid].villager_tasks[r]]
  IN IF \A r \in Resources : tasks[r] = 0 THEN g
     ELSE add_log([g EXCEPT !.players[pid].villager_tasks = merged],
                  "tasked", pid, <<tasks["food"], tasks["wood"], tasks["gold"]>>)

\* `if not tasks: return`: an empty sanitized map leaves the stored one alone.
_process_task_villagers(g, pid, action) ==
  LET tasks == action.task_villagers
  IN IF \A r \in Resources : tasks[r] = 0 THEN g
     ELSE add_log([g EXCEPT !.players[pid].villager_tasks = tasks],
                  "tasked", pid, <<tasks["food"], tasks["wood"], tasks["gold"]>>)

\* A research loop that does not look for the upgrade in the player's list.
RECURSIVE ResearchFrom_repeating(_, _, _, _)
ResearchFrom_repeating(g, pid, items, i) ==
  IF i > Len(items) THEN g
  ELSE LET player == g.players[pid]
           upgrade_name == items[i].upgrade
       IN IF upgrade_name \notin UpgradeNames THEN ResearchFrom_repeating(g, pid, items, i + 1)
          ELSE LET upg == UPGRADES[upgrade_name]
               IN IF ~_can_afford(player.resources, upg.cost)
                  THEN ResearchFrom_repeating(g, pid, items, i + 1)
                  ELSE ResearchFrom_repeating(
                         add_log([g EXCEPT !.players[pid] =
                                    [Deduct(player, upg.cost) EXCEPT
                                       !.upgrades = Append(@, upgrade_name),
                                       !.attack_bonus = @ + upg.attack_bonus,
                                       !.armor_bonus = @ + upg.armor_bonus]],
                                 "researched", pid, <<upgrade_name>>),
                         pid, items, i + 1)

RECURSIVE ResearchFrom(_, _, _, _)
ResearchFrom(g, pid, items, i) ==
  IF i > Len(items) THEN g
  ELSE LET player == g.players[pid]
           upgrade_name == items[i].upgrade
       IN IF upgrade_name \notin UpgradeNames THEN ResearchFrom(g, pid, items, i + 1)
          ELSE IF \E k \in DOMAIN player.upgrades : player.upgrades[k] = upgrade_name
            THEN ResearchFrom(g, pid, items, i + 1)
          ELSE LET upg == UPGRADES[upgrade_name]
               IN IF ~_can_afford(player.resources, upg.cost)
                  THEN ResearchFrom(g, pid, items, i + 1)
                  ELSE ResearchFrom(
                         add_log([g EXCEPT !.players[pid] =
                                    [Deduct(player, upg.cost) EXCEPT
                                       !.upgrades = Append(@, upgrade_name),
                                       !.attack_bonus = @ + upg.attack_bonus,
                                       !.armor_bonus = @ + upg.armor_bonus]],
                                 "researched", pid, <<upgrade_name>>),
                         pid, items, i + 1)

_process_research(g, pid, action) == ResearchFrom(g, pid, action.research, 1)

RECURSIVE BuildsFrom(_, _, _, _)
\* The affordability test reads the ledger, which no build has reduced yet:
\* the costs are taken afterwards by deduct_costs.
BuildsFrom(g, pid, items, i) ==
  IF i > Len(items) THEN g
  ELSE LET player == g.players[pid]
           building == items[i].building
           cost == BUILDINGS[building].cost
       IN IF ~_can_afford(player.resources, cost) THEN BuildsFrom(g, pid, items, i + 1)
          ELSE LET built ==
                     [player EXCEPT
                        !.buildings[player.base_zone] = Append(@, building),
                        !.building_hp[player.base_zone] =
                          IF building \in TrackedBuildings
                          THEN [@ EXCEPT ![building] = @ + BUILDINGS[building].hp]
                          ELSE @]
               IN BuildsFrom(add_log([g EXCEPT !.players[pid] = built],
                                     "built", pid, <<building>>),
                             pid, items, i + 1)

_process_builds(g, pid, action) == BuildsFrom(g, pid, action.build, 1)

\* A training loop that queues the validated count whatever the ledger holds.
TrainUnits_granted(player, unit, count) ==
  [player EXCEPT
     !.resources = [r \in Resources |-> @[r] - count * UNITS[unit].cost[r]],
     !.resources_banked = @ + count * SumOver(UNITS[unit].cost, Resources),
     !.production_queue =
       @ \o [k \in 1 .. count |->
               [unit_type |-> unit, turns_left |-> UNITS[unit].train_turns]]]

RECURSIVE TrainUnits(_, _, _)
\* for _ in range(count): stop when the next unit is not affordable; else
\* deduct its cost and append it to the production queue.
TrainUnits(player, unit, count) ==
  IF count <= 0 \/ ~_can_afford(player.resources, UNITS[unit].cost) THEN player
  ELSE TrainUnits(
         [Deduct(player, UNITS[unit].cost) EXCEPT
            !.production_queue =
              Append(@, [unit_type |-> unit, turns_left |-> UNITS[unit].train_turns])],
         unit, count - 1)

RECURSIVE TrainsFrom(_, _, _, _)
\* The log entry names the validated count of the order.
TrainsFrom(g, pid, items, i) ==
  IF i > Len(items) THEN g
  ELSE TrainsFrom(
         add_log([g EXCEPT !.players[pid] = TrainUnits(@, items[i].unit, items[i].count)],
                 "queued", pid, <<items[i].count, items[i].unit>>),
         pid, items, i + 1)

_process_trains(g, pid, action) == TrainsFrom(g, pid, action.train, 1)

RECURSIVE DeductBuilds(_, _, _)
DeductBuilds(player, items, i) ==
  IF i > Len(items) THEN player
  ELSE DeductBuilds(Deduct(player, BUILDINGS[items[i].building].cost), items, i + 1)

\* Every validated build entry is charged, built or not.
deduct_costs(action, player) == DeductBuilds(player, action.build, 1)

\* A move that takes the validated count without looking at the zone again.
MoveCount_unchecked(count, available) == count

\* min(count, available) units leave the source zone.
MoveCount(count, available) == Min(count, available)

RECURSIVE MovesFrom(_, _, _, _)
MovesFrom(g, pid, items, i) ==
  IF i > Len(items) THEN g
  ELSE LET player == g.players[pid]
           item == items[i]
           available == player.units[item.from][item.unit]
           actual == MoveCount(item.count, available)
       IN IF actual < 1 THEN MovesFrom(g, pid, items, i + 1)
          ELSE LET left == [player.units EXCEPT ![item.from][item.unit] = available - actual]
                   moved == [left EXCEPT ![item.to][item.unit] = @ + actual]
               IN MovesFrom(add_log([g EXCEPT !.players[pid].units = moved], "moved", pid,
                                    <<actual, item.unit, item.from, item.to>>),
                            pid, items, i + 1)

_process_moves(g, pid, action) == MovesFrom(g, pid, action.move, 1)

DeductStep(g, pid, action) == [g EXCEPT !.players[pid] = deduct_costs(action, @)]

\* Steps 5a to 7 of run_turn, each for A and then for B.
apply_effects(g, actions) ==
  LET a == actions["A"]
      b == actions["B"]
      g1 == _process_advance_age(_process_advance_age(g, "A", a), "B", b)
      g2 == _process_task_villagers(_process_task_villagers(g1, "A", a), "B", b)
      g3 == _process_research(_process_research(g2, "A", a), "B", b)
      g4 == _process_builds(_process_builds(g3, "A", a), "B", b)
      g5 == _process_trains(_process_trains(g4, "A", a), "B", b)
      g6 == DeductStep(DeductStep(g5, "A", a), "B", b)
  IN _process_moves(_process_moves(g6, "A", a), "B", b)


(***************************************************************************)
(* Combat: engine/combat.py.  Damage is a float that is always a multiple  *)
(* of 0.5; it is carried doubled (d2 = 2 * damage) as an integer.          *)
(***************************************************************************)
RECURSIVE HpOrder(_)
\* sorted(types, key=hp, reverse=True): the unit hit points are all different.
HpOrder(types) ==
  IF types = {} THEN <<>>
  ELSE LET top == CHOOSE u \in types : \A w \in types : UNITS[u].hp >= UNITS[w].hp
       IN <<top>> \o HpOrder(types \ {top})

\* A Kills that does not hold the kills to the units there are.
Kills_unclamped(count, remaining2, unit_hp) ==
  LET full == remaining2 \div (2 * unit_hp)
      left2 == remaining2 - full * 2 * unit_hp
  IN [actual |-> IF left2 > 0 THEN full + 1 ELSE full, remaining2 |-> 0]

\* A Kills in which damage short of a full kill wounds and kills nobody.
Kills_whole_only(count, remaining2, unit_hp) ==
  LET full == Min(count, remaining2 \div (2 * unit_hp))
  IN [actual |-> full,
      remaining2 |-> IF full < count THEN 0 ELSE remaining2 - full * 2 * unit_hp]

\* Units of one type killed by `remaining2` damage: the full kills, and one
\* more unit when damage is left over and a unit is left to take it.
Kills(count, remaining2, unit_hp) ==
  LET full == Min(count, remaining2 \div (2 * unit_hp))
      left2 == remaining2 - full * 2 * unit_hp
      kills == IF left2 > 0 /\ full < count THEN full + 1 ELSE full
  IN [actual |-> Min(kills, count),
      remaining2 |-> IF left2 > 0 /\ full < count THEN 0 ELSE left2]

RECURSIVE DamageFrom(_, _, _, _, _, _)
DamageFrom(g, pid, zone, order, i, remaining2) ==
  IF i > Len(order) \/ remaining2 <= 0 THEN g
  ELSE LET player == g.players[pid]
           utype == order[i]
           count == player.units[zone][utype]
           k == Kills(count, remaining2, UNITS[utype].hp + player.armor_bonus)
           g1 == [g EXCEPT !.players[pid].units[zone][utype] = count - k.actual]
           g2 == IF k.actual = 0 THEN g1
                 ELSE add_log([g1 EXCEPT !.players[pid].units_lost = @ + k.actual,
                                         !.players[Other(pid)].units_killed = @ + k.actual],
                              "lost", pid, <<k.actual, utype, zone>>)
       IN DamageFrom(g2, pid, zone, order, i + 1, k.remaining2)

\* An _apply_damage that does not count the units the player loses.
_apply_damage_unrecorded(g, pid, zone, damage2) ==
  LET after == DamageFrom(g, pid, zone, HpOrder(Present(g.players[pid], zone)), 1, damage2)
  IN [after EXCEPT !.players[pid].units_lost = g.players[pid].units_lost]

_apply_damage(g, pid, zone, damage2) ==
  DamageFrom(g, pid, zone, HpOrder(Present(g.players[pid], zone)), 1, damage2)

TowerCount(player, zone) ==
  Cardinality({i \in DOMAIN player.buildings[zone] : player.buildings[zone][i] = "Tower"})

\* The towers of `pid` in the zone fire at the other player's units there.
TowerFire(g, pid, zone) ==
  LET towers == TowerCount(g.players[pid], zone)
      tower_dmg == towers * BUILDINGS["Tower"].damage_per_turn
  IN IF towers > 0 /\ Present(g.players[Other(pid)], zone) # {}
     THEN _apply_damage(add_log(g, "tower", pid, <<towers, zone, tower_dmg>>),
                        Other(pid), zone, 2 * tower_dmg)
     ELSE g

_apply_tower_damage(g, zone) == TowerFire(TowerFire(g, "A", zone), "B", zone)

\* The counter multiplier of one attacking type, doubled: 3 for 1.5, 2 for 1.
Bonus2(atype, defenders) ==
  LET counter == UNITS[atype].counter
  IN IF counter = "Infantry"
     THEN (IF defenders \cap INFANTRY_TYPES # {} THEN COUNTER_BONUS_X2 ELSE 2)
     ELSE IF counter # "None" /\ counter \in defenders THEN COUNTER_BONUS_X2
     ELSE 2

\* A _compute_total_damage without the counter bonus.
_compute_total_damage_uncountered(attacker, defender, zone) ==
  LET types == Present(attacker, zone)
  IN SumOver([a \in types |->
                (UNITS[a].atk + attacker.attack_bonus) * attacker.units[zone][a] * 2],
             types)

\* _compute_total_damage, doubled.
_compute_total_damage(attacker, defender, zone) ==
  LET types == Present(attacker, zone)
      defenders == Present(defender, zone)
  IN SumOver([a \in types |->
                (UNITS[a].atk + attacker.attack_bonus) * attacker.units[zone][a]
                  * Bonus2(a, defenders)],
             types)

\* Index of the first "Wall" in a building list (list.remove takes the first).
FirstWall(blist) == CHOOSE i \in DOMAIN blist : blist[i] = "Wall" /\ \A j \in 1..(i - 1) : blist[j] # "Wall"

RemoveAt(seq, i) == SubSeq(seq, 1, i - 1) \o SubSeq(seq, i + 1, Len(seq))

\* A _base_attack in which a hit on a Wall ends at the Wall.
_base_attack_wall_lost(g, attacker_pid, zone) ==
  LET attacker == g.players[attacker_pid]
      dpid == Other(attacker_pid)
      defender == g.players[dpid]
      dmg == SumOver([u \in Present(attacker, zone) |-> UNITS[u].atk * attacker.units[zone][u]],
                     Present(attacker, zone))
      wall_hp == defender.building_hp[zone]["Wall"]
      absorbed == IF wall_hp > 0 THEN Min(dmg, wall_hp) ELSE 0
      rest == IF wall_hp > 0 THEN 0 ELSE dmg
      wall_left == wall_hp - absorbed
      g1 == IF wall_hp <= 0 THEN g
            ELSE IF wall_left <= 0
              THEN add_log(
                     [g EXCEPT !.players[dpid].building_hp[zone]["Wall"] = 0,
                               !.players[dpid].buildings[zone] =
                                 IF \E i \in DOMAIN @ : @[i] = "Wall"
                                 THEN RemoveAt(@, FirstWall(@)) ELSE @],
                     "wall_destroyed", dpid, <<zone>>)
              ELSE add_log([g EXCEPT !.players[dpid].building_hp[zone]["Wall"] = wall_left],
                           "wall_absorbed", dpid, <<zone, wall_left>>)
      tc == Max(0, defender.town_center_hp - rest)
  IN IF dmg <= 0 THEN g
     ELSE IF rest > 0
       THEN add_log([g1 EXCEPT !.players[dpid].town_center_hp = tc],
                    "tc_hit", dpid, <<rest, tc>>)
     ELSE g1

\* A siege in which the attack bonus of the besiegers counts.
_base_attack_with_bonus(g, attacker_pid, zone) ==
  LET attacker == g.players[attacker_pid]
      dpid == Other(attacker_pid)
      defender == g.players[dpid]
      dmg == SumOver([u \in Present(attacker, zone) |-> (UNITS[u].atk + attacker.attack_bonus) * attacker.units[zone][u]],
                     Present(attacker, zone))
      wall_hp == defender.building_hp[zone]["Wall"]
      absorbed == IF wall_hp > 0 THEN Min(dmg, wall_hp) ELSE 0
      rest == dmg - absorbed
      wall_left == wall_hp - absorbed
      g1 == IF wall_hp <= 0 THEN g
            ELSE IF wall_left <= 0
              THEN add_log(
                     [g EXCEPT !.players[dpid].building_hp[zone]["Wall"] = 0,
                               !.players[dpid].buildings[zone] =
                                 IF \E i \in DOMAIN @ : @[i] = "Wall"
                                 THEN RemoveAt(@, FirstWall(@)) ELSE @],
                     "wall_destroyed", dpid, <<zone>>)
              ELSE add_log([g EXCEPT !.players[dpid].building_hp[zone]["Wall"] = wall_left],
                           "wall_absorbed", dpid, <<zone, wall_left>>)
      tc == Max(0, defender.town_center_hp - rest)
  IN IF dmg <= 0 THEN g
     ELSE IF rest > 0
       THEN add_log([g1 EXCEPT !.players[dpid].town_center_hp = tc],
                    "tc_hit", dpid, <<rest, tc>>)
     ELSE g1

_base_attack(g, attacker_pid, zone) ==
  LET attacker == g.players[attacker_pid]
      dpid == Other(attacker_pid)
      defender == g.players[dpid]
      dmg == SumOver([u \in Present(attacker, zone) |-> UNITS[u].atk * attacker.units[zone][u]],
                     Present(attacker, zone))
      wall_hp == defender.building_hp[zone]["Wall"]
      absorbed == IF wall_hp > 0 THEN Min(dmg, wall_hp) ELSE 0
      rest == dmg - absorbed
      wall_left == wall_hp - absorbed
      g1 == IF wall_hp <= 0 THEN g
            ELSE IF wall_left <= 0
              THEN add_log(
                     [g EXCEPT !.players[dpid].building_hp[zone]["Wall"] = 0,
                               !.players[dpid].buildings[zone] =
                                 IF \E i \in DOMAIN @ : @[i] = "Wall"
                                 THEN RemoveAt(@, FirstWall(@)) ELSE @],
                     "wall_destroyed", dpid, <<zone>>)
              ELSE add_log([g EXCEPT !.players[dpid].building_hp[zone]["Wall"] = wall_left],
                           "wall_absorbed", dpid, <<zone, wall_left>>)
      tc == Max(0, defender.town_center_hp - rest)
  IN IF dmg <= 0 THEN g
     ELSE IF rest > 0
       THEN add_log([g1 EXCEPT !.players[dpid].town_center_hp = tc],
                    "tc_hit", dpid, <<rest, tc>>)
     ELSE g1

\* A _handle_base_attack that does not look for defenders.
_handle_base_attack_contested(g, zone) ==
  LET pa == g.players["A"]
      pb == g.players["B"]
      g1 == IF zone = pb.base_zone /\ Present(pa, zone) # {}
            THEN _base_attack(g, "A", zone) ELSE g
  IN IF zone = pa.base_zone /\ Present(pb, zone) # {}
     THEN _base_attack(g1, "B", zone) ELSE g1

\* Units of one player alone in the other player's home zone attack it.
_handle_base_attack(g, zone) ==
  LET pa == g.players["A"]
      pb == g.players["B"]
      units_a == Present(pa, zone)
      units_b == Present(pb, zone)
      g1 == IF zone = pb.base_zone /\ units_a # {} /\ units_b = {}
            THEN _base_attack(g, "A", zone) ELSE g
  IN IF zone = pa.base_zone /\ units_b # {} /\ units_a = {}
     THEN _base_attack(g1, "B", zone) ELSE g1

\* A resolve_combat in which B strikes with what A's blow has left of it.
resolve_combat_sequential(g, zone) ==
  LET g1 == _apply_tower_damage(g, zone)
      pa == g1.players["A"]
      pb == g1.players["B"]
  IN IF Present(pa, zone) = {} \/ Present(pb, zone) = {}
     THEN _handle_base_attack(g1, zone)
     ELSE LET dmg_to_b == _compute_total_damage(pa, pb, zone)
              g2 == add_log(g1, "combat", "", <<zone>>)
              g3 == _apply_damage(g2, "B", zone, dmg_to_b)
              dmg_to_a == _compute_total_damage(g3.players["B"], g3.players["A"], zone)
              g4 == _apply_damage(g3, "A", zone, dmg_to_a)
          IN _handle_base_attack(g4, zone)

resolve_combat(g, zone) ==
  LET g1 == _apply_tower_damage(g, zone)
      pa == g1.players["A"]
      pb == g1.players["B"]
  IN IF Present(pa, zone) = {} \/ Present(pb, zone) = {}
     THEN _handle_base_attack(g1, zone)
     ELSE LET dmg_to_b == _compute_total_damage(pa, pb, zone)
              dmg_to_a == _compute_total_damage(pb, pa, zone)
              g2 == add_log(g1, "combat", "", <<zone>>)
              g3 == _apply_damage(g2, "A", zone, dmg_to_a)
              g4 == _apply_damage(g3, "B", zone, dmg_to_b)
          IN _handle_base_attack(g4, zone)

RECURSIVE CombatFrom(_, _)
\* for zone in ZONES: resolve_combat(gs, zone)
CombatFrom(g, i) ==
  IF i > Len(ZONES) THEN g
  ELSE LET h == resolve_combat(g, ZONES[i])
       IN IF h = g THEN CombatFrom(g, i + 1)   \* nothing happened in this zone
          ELSE CombatFrom(h, i + 1)

resolve_all_combat(g) == CombatFrom(g, 1)

(***************************************************************************)
(* Victory: resolver._check_victory                                        *)
(***************************************************************************)
\* The outcome the score comparison gives.
ByScore(g) ==
  LET score_a == score(g.players["A"])
      score_b == score(g.players["B"])
  IN IF score_a > score_b THEN "A" ELSE IF score_b > score_a THEN "B" ELSE "draw"

\* A victory evaluation that looks at each town center on its own first.
VictoryOutcome_single_first(g) ==
  LET tc_a == g.players["A"].town_center_hp
      tc_b == g.players["B"].town_center_hp
  IN IF tc_b <= 0 THEN "A"
     ELSE IF tc_a <= 0 THEN "B"
     ELSE IF tc_a <= 0 /\ tc_b <= 0 THEN "draw"
     ELSE IF g.turn >= TURN_LIMIT THEN ByScore(g)
     ELSE "None"

\* The value _check_victory returns: "None" when it decides nothing.
VictoryOutcome(g) ==
  LET tc_a == g.players["A"].town_center_hp
      tc_b == g.players["B"].town_center_hp
  IN IF tc_a <= 0 /\ tc_b <= 0 THEN "draw"
     ELSE IF tc_b <= 0 THEN "A"
     ELSE IF tc_a <= 0 THEN "B"
     ELSE IF g.turn >= TURN_LIMIT THEN ByScore(g)
     ELSE "None"

_check_victory(g) ==
  LET w == VictoryOutcome(g)
      why == IF g.players["A"].town_center_hp <= 0 \/ g.players["B"].town_center_hp <= 0
             THEN "town_center" ELSE "turn_limit"
  IN IF w = "None" THEN g
     ELSE add_log([g EXCEPT !.winner = w], "victory", w, <<why>>)


(***************************************************************************)
(* Observations: prompts/builder.py                                        *)
(***************************************************************************)
OWN_HALF ==
  [ A |-> {"Base_A", "Top_A", "Mid_A", "Bot_A"},
    B |-> {"Base_B", "Top_B", "Mid_B", "Bot_B"} ]

\* {k: v for k, v in units.items() if v > 0}
Positive(units) == [u \in {t \in DOMAIN units : units[t] > 0} |-> units[u]]

\* A visible_to_player that is the whole map.
visible_to_player_all(g, pid) == ZoneSet

\* The zones the player has a unit in, and the player's own half.
visible_to_player(g, pid) ==
  {zone \in ZoneSet : \E u \in UnitTypes : g.players[pid].units[zone][u] > 0}
    \cup OWN_HALF[pid]

visible_zones(g, pid) ==
  [ zone \in ZoneSet |->
      [ your_units |-> Positive(g.players[pid].units[zone]),
        enemy_units |-> IF zone \in visible_to_player(g, pid)
                        THEN Positive(g.players[Other(pid)].units[zone])
                        ELSE <<>> ] ]

\* gs.recent_log(n)
recent_log(g, n) == SubSeq(g.log, Max(1, Len(g.log) - n + 1), Len(g.log))

\* build_observation(gs, pid).  In your_state the zones without buildings are
\* left out of the buildings map; here they hold the empty list.
build_observation(g, pid) ==
  LET player == g.players[pid]
      enemy == g.players[Other(pid)]
  IN [ turn |-> g.turn,
       you |-> pid,
       your_state |->
         [ resources |-> player.resources,
           units |-> [zone \in ZoneSet |-> Positive(player.units[zone])],
           buildings |-> player.buildings,
           building_hp |-> player.building_hp,
           town_center_hp |-> player.town_center_hp,
           production_queue |-> player.production_queue,
           age |-> player.age,
           villager_tasks |-> player.villager_tasks,
           upgrades |-> player.upgrades,
           attack_bonus |-> player.attack_bonus,
           armor_bonus |-> player.armor_bonus ],
       visible_zones |-> visible_zones(g, pid),
       enemy_age |-> enemy.age,
       enemy_town_center_hp |-> enemy.town_center_hp,
       recent_events |-> recent_log(g, 5) ]

\* The value of obs before the first observation is built.
NoObservation == [turn |-> 0]

(***************************************************************************)
(* Match states the runs start from.  NewGame is GameState.new_game().     *)
(* The two snapshots are tick boundaries of one match played from NewGame  *)
(* by two agents that do the same thing on their own side of the map: task *)
(* the villagers, train three more, advance to age 2 at turn 10, build a   *)
(* Barracks, train four Militia, and at turn 31 march the Militia down     *)
(* their lane (A: Top, B: Bot) into the opposing home zone while the       *)
(* villagers walk to the Mid zone.  From turn 33 on each town center is    *)
(* besieged for 12 damage per tick.  The log of a snapshot holds the       *)
(* entries written after it: the earlier ones are a constant prefix.       *)
(***************************************************************************)
NoUnits == [u \in UnitTypes |-> 0]

\* PlayerState(player_id, base_zone) after __post_init__.
NewPlayer(pid, base) ==
  [ player_id |-> pid,
    base_zone |-> base,
    resources |-> STARTING_RESOURCES,
    units |-> [z \in ZoneSet |-> IF z = base THEN [NoUnits EXCEPT !["Villager"] = 3]
                                 ELSE NoUnits],
    buildings |-> [z \in ZoneSet |-> <<>>],
    town_center_hp |-> TOWN_CENTER_HP,
    production_queue |-> <<>>,
    resources_banked |-> 0,
    age |-> 1,
    villager_tasks |-> [r \in Resources |-> 0],
    building_hp |-> [z \in ZoneSet |-> [b \in TrackedBuildings |-> 0]],
    upgrades |-> <<>>,
    attack_bonus |-> 0,
    armor_bonus |-> 0,
    units_killed |-> 0,
    units_lost |-> 0 ]

NewGame ==
  [ turn |-> 1,
    players |-> [A |-> NewPlayer("A", "Base_A"), B |-> NewPlayer("B", "Base_B")],
    log |-> <<>>,
    winner |-> "None" ]

\* Turn 17 of that match: age 2, a Barracks, six villagers and four Militia at home.
Feudal(pid, base) ==
  [ NewPlayer(pid, base) EXCEPT
      !.resources = [food |-> 58, wood |-> 186, gold |-> 226],
      !.units[base] = [NoUnits EXCEPT !["Villager"] = 6, !["Militia"] = 4],
      !.buildings[base] = <<"Barracks">>,
      !.resources_banked = 1090,
      !.age = 2,
      !.villager_tasks = [food |-> 3, wood |-> 2, gold |-> 1] ]

Snapshot17 ==
  [ turn |-> 17,
    players |-> [A |-> Feudal("A", "Base_A"), B |-> Feudal("B", "Base_B")],
    log |-> <<>>,
    winner |-> "None" ]

\* Turn 49 of that match: each side's Militia stand alone in the other home
\* zone, the villagers are in the Mid zone, both town centers are down to 8.
Besieger(pid, base, mid, enemy_base) ==
  [ NewPlayer(pid, base) EXCEPT
      !.resources = [food |-> 1498, wood |-> 954, gold |-> 642],
      !.units = [z \in ZoneSet |->
                   IF z = mid THEN [NoUnits EXCEPT !["Villager"] = 6]
                   ELSE IF z = enemy_base THEN [NoUnits EXCEPT !["Militia"] = 4]
                   ELSE NoUnits],
      !.buildings[base] = <<"Barracks">>,
      !.town_center_hp = 8,
      !.resources_banked = 1090,
      !.age = 2,
      !.villager_tasks = [food |-> 3, wood |-> 2, gold |-> 1] ]

Snapshot49 ==
  [ turn |-> 49,
    players |-> [A |-> Besieger("A", "Base_A", "Mid_A", "Base_B"),
                 B |-> Besieger("B", "Base_B", "Mid_B", "Base_A")],
    log |-> <<>>,
    winner |-> "None" ]

(***************************************************************************)
(* Turn 48 of a second match played from NewGame.  A takes eight villagers *)
(* to age 3, builds a Barracks, a Range, a Blacksmith and, under siege, a  *)
(* Wall, and keeps three Archers and two Knights in Top_A and its          *)
(* villagers in Mid_A.  B takes twelve villagers to age 3, builds a        *)
(* Barracks and a Blacksmith and since turn 33 besieges Base_A with four   *)
(* Militia.  The Wall, built at turn 41, has 16 hit points left.           *)
(***************************************************************************)
Fortified ==
  [ NewPlayer("A", "Base_A") EXCEPT
      !.resources = [food |-> 934, wood |-> 220, gold |-> 849],
      !.units = [z \in ZoneSet |->
                   IF z = "Top_A" THEN [NoUnits EXCEPT !["Archer"] = 3, !["Knight"] = 2]
                   ELSE IF z = "Mid_A" THEN [NoUnits EXCEPT !["Villager"] = 8]
                   ELSE NoUnits],
      !.buildings["Base_A"] = <<"Barracks", "Range", "Blacksmith", "Wall">>,
      !.building_hp["Base_A"]["Wall"] = 16,
      !.town_center_hp = 92,
      !.resources_banked = 2670,
      !.age = 3,
      !.villager_tasks = [food |-> 1, wood |-> 3, gold |-> 4] ]

Wealthy ==
  [ NewPlayer("B", "Base_B") EXCEPT
      !.resources = [food |-> 1253, wood |-> 1404, gold |-> 1289],
      !.units = [z \in ZoneSet |->
                   IF z = "Base_A" THEN [NoUnits EXCEPT !["Militia"] = 4]
                   ELSE IF z = "Base_B" THEN [NoUnits EXCEPT !["Villager"] = 12]
                   ELSE NoUnits],
      !.buildings["Base_B"] = <<"Barracks", "Blacksmith">>,
      !.resources_banked = 2640,
      !.age = 3,
      !.villager_tasks = [food |-> 4, wood |-> 4, gold |-> 4] ]

Snapshot48 ==
  [ turn |-> 48,
    players |-> [A |-> Fortified, B |-> Wealthy],
    log |-> <<>>,
    winner |-> "None" ]

(***************************************************************************)
(* Turn 45 of a third match.  A plays as in the second match but builds two *)
(* Walls ahead of its Blacksmith (turns 37 and 39); B besieges Base_A with  *)
(* eight Militia since turn 37.  The Walls have 8 hit points left.          *)
(***************************************************************************)
Walled ==
  [ NewPlayer("A", "Base_A") EXCEPT
      !.resources = [food |-> 709, wood |-> 134, gold |-> 786],
      !.units = [z \in ZoneSet |->
                   IF z = "Top_A" THEN [NoUnits EXCEPT !["Archer"] = 3, !["Knight"] = 2]
                   ELSE IF z = "Mid_A" THEN [NoUnits EXCEPT !["Villager"] = 8]
                   ELSE NoUnits],
      !.buildings["Base_A"] = <<"Barracks", "Range", "Wall", "Wall", "Blacksmith">>,
      !.building_hp["Base_A"]["Wall"] = 8,
      !.resources_banked = 2720,
      !.age = 3,
      !.villager_tasks = [food |-> 1, wood |-> 3, gold |-> 4] ]

Massed ==
  [ NewPlayer("B", "Base_B") EXCEPT
      !.resources = [food |-> 833, wood |-> 1260, gold |-> 1178],
      !.units = [z \in ZoneSet |->
                   IF z = "Base_A" THEN [NoUnits EXCEPT !["Militia"] = 8]
                   ELSE IF z = "Base_B" THEN [NoUnits EXCEPT !["Villager"] = 12]
                   ELSE NoUnits],
      !.buildings["Base_B"] = <<"Barracks", "Blacksmith">>,
      !.resources_banked = 2880,
      !.age = 3,
      !.villager_tasks = [food |-> 4, wood |-> 4, gold |-> 4] ]

Snapshot45 ==
  [ turn |-> 45,
    players |-> [A |-> Walled, B |-> Massed],
    log |-> <<>>,
    winner |-> "None" ]

(***************************************************************************)
(* Turn 30 of a fourth match.  A trains Villagers up to 22 and sets all of  *)
(* them to food; B has twelve Militia waiting in Bot_A, next to Base_A.     *)
(***************************************************************************)
Farming ==
  [ NewPlayer("A", "Base_A") EXCEPT
      !.resources = [food |-> 7299, wood |-> 156, gold |-> 195],
      !.units["Base_A"] = [NoUnits EXCEPT !["Villager"] = 22],
      !.resources_banked = 950,
      !.villager_tasks = [food |-> 22, wood |-> 0, gold |-> 0] ]

Waiting ==
  [ NewPlayer("B", "Base_B") EXCEPT
      !.resources = [food |-> 163, wood |-> 498, gold |-> 395],
      !.units = [z \in ZoneSet |->
                   IF z = "Bot_A" THEN [NoUnits EXCEPT !["Militia"] = 12]
                   ELSE IF z = "Base_B" THEN [NoUnits EXCEPT !["Villager"] = 6]
                   ELSE NoUnits],
      !.buildings["Base_B"] = <<"Barracks">>,
      !.resources_banked = 1570,
      !.age = 2,
      !.villager_tasks = [food |-> 3, wood |-> 2, gold |-> 1] ]

Snapshot30 ==
  [ turn |-> 30,
    players |-> [A |-> Farming, B |-> Waiting],
    log |-> <<>>,
    winner |-> "None" ]

(***************************************************************************)
(* Turn 19 of a fifth match.  A sent its three Villagers to food in turn 1  *)
(* and did nothing since; two Militia of B reached Base_A in turn 18, two   *)
(* Villagers and one Militia fell.                                          *)
(***************************************************************************)
Raided ==
  [ NewPlayer("A", "Base_A") EXCEPT
      !.resources = [food |-> 974, wood |-> 156, gold |-> 140],
      !.units["Base_A"] = [NoUnits EXCEPT !["Villager"] = 1],
      !.villager_tasks = [food |-> 3, wood |-> 0, gold |-> 0],
      !.units_killed = 1,
      !.units_lost = 2 ]

Raider ==
  [ NewPlayer("B", "Base_B") EXCEPT
      !.resources = [food |-> 268, wood |-> 234, gold |-> 252],
      !.units = [z \in ZoneSet |->
                   IF z = "Base_A" THEN [NoUnits EXCEPT !["Militia"] = 1]
                   ELSE IF z = "Base_B" THEN [NoUnits EXCEPT !["Villager"] = 6]
                   ELSE NoUnits],
      !.buildings["Base_B"] = <<"Barracks">>,
      !.resources_banked = 970,
      !.age = 2,
      !.villager_tasks = [food |-> 3, wood |-> 2, gold |-> 1],
      !.units_killed = 2,
      !.units_lost = 1 ]

Snapshot19 ==
  [ turn |-> 19,
    players |-> [A |-> Raided, B |-> Raider],
    log |-> <<>>,
    winner |-> "None" ]

(***************************************************************************)
(* What a decision call can come back with: a value, a timeout, an error.  *)
(***************************************************************************)
Value(v) == [k |-> "value", v |-> v]

Entry(unit, count) == PyDict([unit |-> PyStr(unit), count |-> PyInt(count)])

MoveEntry(unit, count, from, to) ==
  PyDict([unit |-> PyStr(unit), count |-> PyInt(count), from |-> PyStr(from), to |-> PyStr(to)])

BuildEntry(building) == PyDict([building |-> PyStr(building)])

ResearchEntry(upgrade) == PyDict([upgrade |-> PyStr(upgrade)])

Decisions ==
  [ timeout |-> [k |-> "timeout"],
    error |-> [k |-> "error"],
    not_mapping |-> Value(PyList(<<PyStr("train"), PyStr("Villager")>>)),
    empty |-> Value(PyDict(EmptyMap)),
    \* one legal entry and one whose unit is a list
    bad_unit |->
      Value(PyDict([train |-> PyList(<<Entry("Villager", 1),
                                       PyDict([unit |-> PyList(<<PyStr("Militia")>>),
                                               count |-> PyInt(1)])>>),
                    task_villagers |-> PyDict([food |-> PyInt(3)])])),
    \* malformed fields and entries around legal train requests
    train_mixed |->
      Value(PyDict([train |-> PyList(<<PyInt(7),
                                       Entry("Dragon", 1),
                                       Entry("Villager", -1),
                                       PyDict([unit |-> PyStr("Villager"),
                                               count |-> PyFloat(2)]),
                                       Entry("Knight", 1),
                                       Entry("Villager", 3),
                                       PyDict([unit |-> PyStr("Villager")]),
                                       Entry("Militia", 2)>>),
                    build |-> PyStr("Barracks"),
                    move |-> PyDict([unit |-> PyStr("Villager")]),
                    research |-> PyNone,
                    attack |-> PyList(<<PyStr("Base_B")>>)])),
    \* more villagers tasked than owned, an unknown kind, a negative count
    task_over |->
      Value(PyDict([task_villagers |-> PyDict([food |-> PyInt(4), wood |-> PyInt(2),
                                               stone |-> PyInt(1), gold |-> PyInt(-1)]),
                    advance_age |-> PyBool(TRUE)])),
    \* every villager of a new game sent to food
    all_food |-> Value(PyDict([task_villagers |-> PyDict([food |-> PyInt(3)])])),
    \* 47 villagers sent to food by a player who has 3 (or 6)
    task_47 |-> Value(PyDict([task_villagers |-> PyDict([food |-> PyInt(47)])])),
    \* two moves out of Base_A that together ask for more villagers than are
    \* there, and a move between zones that are not adjacent
    move_twice_A |->
      Value(PyDict([move |-> PyList(<<MoveEntry("Villager", 3, "Base_A", "Mid_A"),
                                      MoveEntry("Villager", 2, "Base_A", "Top_A"),
                                      MoveEntry("Villager", 1, "Base_A", "Base_B")>>)])),
    \* several buildings, each affordable on its own
    build_three |->
      Value(PyDict([build |-> PyList(<<BuildEntry("Barracks"), BuildEntry("Range"),
                                       BuildEntry("Castle"), BuildEntry("Range"),
                                       BuildEntry("Tower")>>)])),
    build_train |->
      Value(PyDict([build |-> PyList(<<BuildEntry("Range")>>),
                    train |-> PyList(<<Entry("Militia", 5), Entry("Archer", 1)>>)])),
    \* the besiegers leave the opposing home zone
    retreat_A |-> Value(PyDict([move |-> PyList(<<MoveEntry("Militia", 9, "Base_B", "Top_B")>>)])),
    retreat_B |-> Value(PyDict([move |-> PyList(<<MoveEntry("Militia", 9, "Base_A", "Bot_A")>>)])),
    \* the villagers walk home into the besiegers, freshly tasked
    defend_A |->
      Value(PyDict([move |-> PyList(<<MoveEntry("Villager", 2, "Mid_A", "Base_A")>>),
                    task_villagers |-> PyDict([food |-> PyInt(6)])])),
    train_B |-> Value(PyDict([train |-> PyList(<<Entry("Villager", 1)>>)])),
    \* the garrison of Top_A goes home into the besiegers; an age advance that
    \* cannot be paid for, the first attack upgrade asked for twice
    sortie_A |->
      Value(PyDict([move |-> PyList(<<MoveEntry("Archer", 3, "Top_A", "Base_A"),
                                      MoveEntry("Knight", 2, "Top_A", "Base_A")>>),
                    advance_age |-> PyBool(TRUE),
                    research |-> PyList(<<ResearchEntry("attack_1"),
                                          ResearchEntry("attack_1")>>)])),
    \* only the Archers go home; an unknown upgrade, and the second armor
    \* upgrade ahead of the first
    archers_A |->
      Value(PyDict([move |-> PyList(<<MoveEntry("Archer", 3, "Top_A", "Base_A")>>),
                    build |-> PyList(<<BuildEntry("Tower"), BuildEntry("Wall")>>),
                    research |-> PyList(<<ResearchEntry("armor_2"),
                                          ResearchEntry("fletching"),
                                          ResearchEntry("armor_1")>>)])),
    \* a Tower at home, and the Knights go home into the besiegers
    tower_A |->
      Value(PyDict([build |-> PyList(<<BuildEntry("Tower")>>),
                    move |-> PyList(<<MoveEntry("Knight", 2, "Top_A", "Base_A")>>)])),
    \* the Archers and one Knight go home into the besiegers
    escort_A |->
      Value(PyDict([move |-> PyList(<<MoveEntry("Archer", 3, "Top_A", "Base_A"),
                                      MoveEntry("Knight", 1, "Top_A", "Base_A")>>)])),
    \* seven Villagers walk out of Base_A into the Militia waiting in Bot_A
    forage_A |->
      Value(PyDict([move |-> PyList(<<MoveEntry("Villager", 7, "Base_A", "Bot_A")>>)])),
    \* units of four kinds, with training times 3, 1, 2 and 1
    recruit_A |->
      Value(PyDict([train |-> PyList(<<Entry("Knight", 1), Entry("Militia", 1),
                                       Entry("Archer", 3), Entry("Villager", 1)>>)])),
    \* one villager to food and one to wood, by a player who has one (or none)
    task_thin |->
      Value(PyDict([task_villagers |-> PyDict([food |-> PyInt(1), wood |-> PyInt(1)])])),
    \* an unknown kind, a negative count and a count that is no integer
    task_invalid |->
      Value(PyDict([task_villagers |-> PyDict([stone |-> PyInt(2), gold |-> PyInt(-1),
                                               food |-> PyStr("3")])])),
    \* one more Wall
    rebuild_A |-> Value(PyDict([build |-> PyList(<<BuildEntry("Wall")>>)])),
    advance_B |-> Value(PyDict([advance_age |-> PyBool(TRUE)])),
    \* the second attack upgrade ahead of the first, the first asked for twice
    research_B |->
      Value(PyDict([advance_age |-> PyInt(1),
                    research |-> PyList(<<ResearchEntry("attack_2"),
                                          ResearchEntry("attack_1"),
                                          ResearchEntry("attack_1")>>)])) ]

\* The match states a run starts from, each with the decisions the two
\* agents choose from in that match.
Scenarios ==
  << [ gs |-> NewGame,
       menu |-> [A |-> {"empty", "timeout", "not_mapping", "bad_unit", "train_mixed",
                        "task_over", "task_47", "move_twice_A"},
                 B |-> {"empty", "error", "train_mixed"}] ],
     [ gs |-> Snapshot17,
       menu |-> [A |-> {"empty", "build_three", "build_train"},
                 B |-> {"empty", "train_mixed"}] ],
     [ gs |-> Snapshot49,
       menu |-> [A |-> {"empty", "retreat_A", "defend_A"},
                 B |-> {"empty", "retreat_B", "train_B", "timeout"}] ],
     [ gs |-> Snapshot48,
       menu |-> [A |-> {"empty", "sortie_A", "archers_A", "tower_A", "escort_A"},
                 B |-> {"empty", "advance_B", "research_B"}] ],
     [ gs |-> Snapshot45,
       menu |-> [A |-> {"empty", "rebuild_A", "recruit_A"},
                 B |-> {"empty"}] ],
     [ gs |-> NewGame,
       menu |-> [A |-> {"all_food", "error"},
                 B |-> {"all_food", "error"}] ],
     [ gs |-> Snapshot30,
       menu |-> [A |-> {"empty", "forage_A"},
                 B |-> {"empty"}] ],
     [ gs |-> Snapshot19,
       menu |-> [A |-> {"task_thin", "task_invalid", "all_food"},
                 B |-> {"empty"}] ] >>

\* Turns the configured limit may exceed the starting turn by.
MaxExtraTurns == 1

(***************************************************************************)
(* The match: main.run_game around resolver.run_turn                       *)
(***************************************************************************)
VARIABLES
  gs,           \* the GameState
  pc,           \* where the match loop and the tick in progress stand
  loop_turn,    \* run_game: `turn` of `for turn in range(1, max_turns + 1)`
  max_turns,    \* run_game: the configured turn limit (--turns, lobby form)
  run_winner,   \* run_game: the local `winner`
  ret,          \* run_turn: the local `winner` it returns
  decided,      \* per player: the decision its call came back with, or "pending"
  action,       \* per player: the validated command of this tick
  stop_event,   \* web.server.stop_event
  fault,        \* what made run_turn raise: "none", "validate", "io"
  scen,         \* the scenario the run started from
  obs,          \* run_turn: per player, the observation handed to its decision call
  published     \* the snapshots handed to the observers by the latest step that handed any

vars == <<gs, pc, loop_turn, max_turns, run_winner, ret, decided, action, stop_event,
          fault, scen, obs, published>>

Init ==
  /\ scen \in DOMAIN Scenarios
  /\ gs = Scenarios[scen].gs
  /\ pc = "idle"
  /\ loop_turn = gs.turn
  /\ max_turns \in gs.turn .. (gs.turn + MaxExtraTurns)
  /\ run_winner = "None"
  /\ ret = "None"
  /\ decided = [p \in Pids |-> "pending"]
  /\ action = [p \in Pids |-> EMPTY_ACTION]
  /\ stop_event = FALSE
  /\ fault = "none"
  /\ obs = [p \in Pids |-> NoObservation]
  /\ published = <<>>

\* run_turn steps 1 and 2, and the two decision calls started by gather.
StartTurn ==
  /\ pc = "idle"
  /\ gs' = economy_tick(gs)
  /\ obs' = [p \in Pids |-> build_observation(economy_tick(gs), p)]
  /\ decided' = [p \in Pids |-> "pending"]
  /\ pc' = "awaiting"
  /\ UNCHANGED <<loop_turn, max_turns, run_winner, ret, action, stop_event, fault, scen, published>>

\* _get_agent_action: what the call hands on to validation.
RawOf(d) == IF d.k = "value" /\ d.v.t = "dict" THEN d.v ELSE PyDict(EmptyMap)

\* _get_agent_action: a timeout and an error are logged.
LogFailure(g, pid, d) ==
  IF d.k = "timeout" THEN add_log(g, "agent_timeout", pid, <<>>)
  ELSE IF d.k = "error" THEN add_log(g, "agent_error", pid, <<>>)
  ELSE g

AgentReturn(pid) ==
  /\ pc = "awaiting"
  /\ decided[pid] = "pending"
  /\ \E name \in Scenarios[scen].menu[pid] :
       /\ decided' = [decided EXCEPT ![pid] = name]
       /\ gs' = LogFailure(gs, pid, Decisions[name])
  /\ pc' = IF decided[Other(pid)] # "pending" THEN "decided" ELSE "awaiting"
  /\ UNCHANGED <<loop_turn, max_turns, run_winner, ret, action, stop_event, fault, scen, obs, published>>

\* The stop request of the web control surface; the event loop serves it
\* while run_turn awaits the decision calls.
SetStop ==
  /\ pc = "awaiting"
  /\ ~stop_event
  /\ stop_event' = TRUE
  /\ UNCHANGED <<gs, pc, loop_turn, max_turns, run_winner, ret, decided, action, fault, scen, obs, published>>

\* run_turn step 4.  An exception leaves run_turn; run_game catches it and breaks.
ValidateActions ==
  /\ pc = "decided"
  /\ LET va == validate_action(RawOf(Decisions[decided["A"]]), gs.players["A"])
         vb == validate_action(RawOf(Decisions[decided["B"]]), gs.players["B"])
     IN IF va.raised \/ vb.raised
        THEN /\ fault' = "validate"
             /\ pc' = "after_loop"
             /\ UNCHANGED <<gs, action>>
        ELSE /\ action' = [A |-> va.val, B |-> vb.val]
             /\ gs' = add_log(add_log([gs EXCEPT !.players = [A |-> va.player, B |-> vb.player]],
                                      "actions", "A", <<va.val.train, va.val.build, va.val.move>>),
                              "actions", "B", <<vb.val.train, vb.val.build, vb.val.move>>)
             /\ pc' = "validated"
             /\ UNCHANGED fault
  /\ UNCHANGED <<loop_turn, max_turns, run_winner, ret, decided, stop_event, scen, obs, published>>

\* run_turn steps 5a to 7.
ApplyEffects ==
  /\ pc = "validated"
  /\ gs' = apply_effects(gs, action)
  /\ pc' = "effects"
  /\ UNCHANGED <<loop_turn, max_turns, run_winner, ret, decided, action, stop_event, fault, scen, obs, published>>

\* run_turn step 8.
ResolveCombat ==
  /\ pc = "effects"
  /\ gs' = resolve_all_combat(gs)
  /\ pc' = "combat"
  /\ UNCHANGED <<loop_turn, max_turns, run_winner, ret, decided, action, stop_event, fault, scen, obs, published>>

\* run_turn step 9.
CheckVictory ==
  /\ pc = "combat"
  /\ gs' = _check_victory(gs)
  /\ ret' = VictoryOutcome(gs)
  /\ pc' = "outcome"
  /\ UNCHANGED <<loop_turn, max_turns, run_winner, decided, action, stop_event, fault, scen, obs, published>>

\* A snapshot of the match state in the hands of an observer: renderer.render(gs),
\* _save_turn_log(gs, log_dir), web_broadcast(gs.to_dict()).
Handed(observer, g) == [to |-> observer, gs |-> g]

\* run_turn: `gs.turn += 1`, skipped in the tick that decides the outcome.
IncrementTurn_unless_decided(g) ==
  IF g.winner # "None" THEN g ELSE [g EXCEPT !.turn = @ + 1]

\* run_turn: `gs.turn += 1`.
IncrementTurn(g) == [g EXCEPT !.turn = @ + 1]

\* run_turn step 10 and the turn increment, then the rest of the loop body of
\* run_game: the stop check, the winner check, the next iteration if any.
EndTurn ==
  /\ pc = "outcome"
  /\ gs' = IncrementTurn(gs)
  /\ run_winner' = ret
  /\ IF stop_event \/ ret # "None" \/ loop_turn + 1 > max_turns
     THEN pc' = "after_loop" /\ UNCHANGED loop_turn
     ELSE pc' = "idle" /\ loop_turn' = loop_turn + 1
  /\ published' = << Handed("renderer", gs), Handed("turn_log", gs),
                    Handed("web", IncrementTurn(gs)) >>
  /\ UNCHANGED <<max_turns, ret, decided, action, stop_event, fault, scen, obs>>

\* The renderer or the turn-log writer raises: run_turn is left before the
\* turn increment, run_game catches the exception and breaks.  The turn-log
\* writer runs after the renderer has been handed the state.
EndTurnFault ==
  /\ pc = "outcome"
  /\ fault' = "io"
  /\ pc' = "after_loop"
  /\ \E raised_in \in {"renderer", "turn_log"} :
       published' = IF raised_in = "turn_log" THEN << Handed("renderer", gs) >> ELSE published
  /\ UNCHANGED <<gs, loop_turn, max_turns, run_winner, ret, decided, action, stop_event, scen, obs>>

\* run_game after the loop: with no winner returned, the scores decide.
Conclude ==
  /\ pc = "after_loop"
  /\ gs' = IF run_winner = "None"
           THEN add_log([gs EXCEPT !.winner = ByScore(gs)], "result", ByScore(gs), <<>>)
           ELSE gs
  /\ run_winner' = IF run_winner = "None" THEN ByScore(gs) ELSE run_winner
  /\ published' = IF run_winner = "None" THEN << Handed("web", gs') >> ELSE published
  /\ pc' = "done"
  /\ UNCHANGED <<loop_turn, max_turns, ret, decided, action, stop_event, fault, scen, obs>>

Next ==
  \/ StartTurn
  \/ \E pid \in Pids : AgentReturn(pid)
  \/ SetStop
  \/ ValidateActions
  \/ ApplyEffects
  \/ ResolveCombat
  \/ CheckVictory
  \/ EndTurn
  \/ EndTurnFault
  \/ Conclude

Spec == Init /\ [][Next]_vars

(***************************************************************************)
(* Properties                                                              *)
(***************************************************************************)
\* A tick has run to its end and the next has not begun.
AtTickBoundary == pc = "idle" \/ (pc \in {"after_loop", "done"} /\ fault = "none")

\* The tick in progress has both decisions in and has not been left.
InTick == pc \in {"decided", "validated", "effects", "combat", "outcome"}

\* The decision call timed out, raised, or returned something that is no mapping.
FailedCall(name) ==
  name # "pending" /\ (Decisions[name].k # "value" \/ Decisions[name].v.t # "dict")

BothTownCentersStand ==
  gs.players["A"].town_center_hp > 0 /\ gs.players["B"].town_center_hp > 0

\* C1: at every tick boundary each of food, wood and gold of both players is
\* at least 0, whatever the commands of the ticks before were.
C1_ResourcesNeverNegative ==
  AtTickBoundary =>
    \A p \in Pids : \A r \in Resources : gs.players[p].resources[r] >= 0

\* C2: validate_action never raises, whatever the shape of the raw value: no
\* tick is ever left because validation raised.
C2_ValidateNeverRaises == fault # "validate"

\* C3: when a player's decision call times out, raises or returns no mapping,
\* a failure entry of that player is in the log of the tick, that player's
\* command is the empty command, and the tick is not left by validation.
C3_FailedCallIsNoOp ==
  \A p \in Pids :
    FailedCall(decided[p]) =>
      /\ InTick =>
           \E i \in DOMAIN gs.log :
             /\ gs.log[i].turn = gs.turn
             /\ gs.log[i].pid = p
             /\ gs.log[i].kind \in {"agent_timeout", "agent_error"}
      /\ pc \in {"validated", "effects", "combat", "outcome"} => action[p] = EMPTY_ACTION
      /\ fault # "validate"

\* C4: at every tick boundary the stored villager assignment of each player
\* sums to at most the villagers that player has over all zones.
C4_TasksWithinVillagers ==
  AtTickBoundary =>
    \A p \in Pids :
      SumOver(gs.players[p].villager_tasks, Resources) <= TotalVillagers(gs.players[p])

\* C5: the outcome field changes only in the victory evaluation step, and
\* only from undecided to decided.
C5_OutcomeWriteOnce ==
  [][gs'.winner # gs.winner => (pc = "combat" /\ gs.winner = "None")]_vars

\* The outcome the order of C6 gives for the state the evaluation looked at.
C6_Expected ==
  LET tc_a == gs.players["A"].town_center_hp
      tc_b == gs.players["B"].town_center_hp
      sa == score(gs.players["A"])
      sb == score(gs.players["B"])
  IN CASE tc_a <= 0 /\ tc_b <= 0 -> "draw"
       [] tc_a > 0 /\ tc_b <= 0 -> "A"
       [] tc_a <= 0 /\ tc_b > 0 -> "B"
       [] tc_a > 0 /\ tc_b > 0 /\ gs.turn >= TURN_LIMIT /\ sa > sb -> "A"
       [] tc_a > 0 /\ tc_b > 0 /\ gs.turn >= TURN_LIMIT /\ sb > sa -> "B"
       [] tc_a > 0 /\ tc_b > 0 /\ gs.turn >= TURN_LIMIT /\ sa = sb -> "draw"
       [] OTHER -> "None"

\* C6: victory evaluation decides in this order: both town centers at 0 or
\* below is a draw; else one town center at 0 or below is a win for the other
\* player; else a turn counter at or past the evaluator's turn limit is a win
\* for the strictly higher score and a draw on equal scores; else nothing is
\* decided.  Both the outcome field and the value returned say so.
C6_VictoryOrder ==
  pc = "outcome" => gs.winner = C6_Expected /\ ret = C6_Expected

\* Both town centers fell in the same tick and the evaluation called a draw.
C6_Witness ==
  /\ pc = "outcome"
  /\ gs.players["A"].town_center_hp <= 0
  /\ gs.players["B"].town_center_hp <= 0
  /\ gs.winner = "draw"

\* C7: in a match configured with turn limit N, with both town centers
\* standing, the evaluator decides by the turn-limit rule in the tick whose
\* turn counter is N, and in no tick before it.
C7_TurnLimitIsConfigured ==
  (pc = "outcome" /\ BothTownCentersStand) =>
    (ret # "None" <=> gs.turn >= max_turns)

\* C8: every unit count of every player, zone and type is at least 0.
C8_UnitCountsNeverNegative ==
  \A p \in Pids : \A z \in ZoneSet : \A u \in UnitTypes : gs.players[p].units[z][u] >= 0

\* Two moves of 3 and 2 villagers out of a home zone holding 3 were applied:
\* the first took all three, the second found none.
C8_Witness ==
  /\ pc = "effects"
  /\ decided["A"] = "move_twice_A"
  /\ Len(action["A"].move) = 2
  /\ gs.players["A"].units["Base_A"]["Villager"] = 0
  /\ gs.players["A"].units["Mid_A"]["Villager"] = 3
  /\ gs.players["A"].units["Top_A"]["Villager"] = 0

\* C9: the validation step leaves both players' state as it was.
C9_ValidateLeavesPlayers ==
  [][pc = "decided" => gs'.players = gs.players]_vars

\* Validation returned a command that sets a villager assignment different
\* from the stored one.
C9_Witness ==
  /\ pc = "validated"
  /\ \E p \in Pids :
       /\ SumOver(action[p].task_villagers, Resources) > 0
       /\ action[p].task_villagers # gs.players[p].villager_tasks

\* A train request as C10 reads it: a mapping with a string for its unit and
\* a count that is left out (then 1) or an integer of at least 1.
C10_WellFormed(item) ==
  /\ item.t = "dict"
  /\ "unit" \in DOMAIN item.v
  /\ item.v["unit"].t = "str"
  /\ "count" \in DOMAIN item.v => (IsInt(item.v["count"]) /\ IntVal(item.v["count"]) >= 1)

C10_Requested(item) == IF "count" \in DOMAIN item.v THEN IntVal(item.v["count"]) ELSE 1

\* min(requested, min over the kinds with a positive cost of floor(resource / cost))
C10_Clamped(item, player) ==
  LET cost == UNITS[item.v["unit"].v].cost
      S == {player.resources[r] \div cost[r] : r \in {k \in DOMAIN cost : cost[k] > 0}}
             \cup {C10_Requested(item)}
  IN CHOOSE m \in S : \A x \in S : m <= x

C10_Eligible(item, player) ==
  /\ C10_WellFormed(item)
  /\ item.v["unit"].v \in UnitTypes
  /\ UNIT_AGE_REQUIREMENT[item.v["unit"].v] <= player.age
  /\ item.v["unit"].v \in {"Militia", "Knight"} =>
       \E z \in ZoneSet : \E i \in DOMAIN player.buildings[z] : player.buildings[z][i] = "Barracks"
  /\ item.v["unit"].v = "Archer" =>
       \E z \in ZoneSet : \E i \in DOMAIN player.buildings[z] : player.buildings[z][i] = "Range"
  /\ C10_Clamped(item, player) >= 1

C10_Expected(items, player) ==
  IF items.t # "list" THEN <<>>
  ELSE LET kept == SelectSeq(items.v, LAMBDA item : C10_Eligible(item, player))
       IN [i \in DOMAIN kept |->
             [unit |-> kept[i].v["unit"].v, count |-> C10_Clamped(kept[i], player)]]

\* C10: the sanitized train list is the eligible requests in request order,
\* each with its count clamped on the ledger as validation found it.
C10_TrainListIsFilterAndClamp ==
  pc = "validated" =>
    \A p \in Pids :
      action[p].train =
        C10_Expected(Get(RawOf(Decisions[decided[p]]), "train", PyList(<<>>)), gs.players[p])

\* A request for three villagers came out as two, next to dropped entries.
C10_Witness ==
  /\ pc = "validated"
  /\ \E p \in Pids :
       /\ decided[p] = "train_mixed"
       /\ Len(action[p].train) >= 2
       /\ action[p].train[1] = [unit |-> "Villager", count |-> 2]

\* The building a build request names, when it names one as a string.
C11_Named(item) ==
  IF item.t = "dict" /\ "building" \in DOMAIN item.v /\ item.v["building"].t = "str"
  THEN item.v["building"].v ELSE ""

C11_Eligible(item, player) ==
  /\ C11_Named(item) \in BuildingTypes
  /\ player.age >= BUILDING_AGE_REQUIREMENT[C11_Named(item)]
  /\ \A r \in Resources :
       r \in DOMAIN BUILDINGS[C11_Named(item)].cost =>
         player.resources[r] >= BUILDINGS[C11_Named(item)].cost[r]

\* C11: the sanitized build list is, in request order, one entry for every
\* request that names a known building type whose minimum age the player has
\* and whose full cost the ledger as validation found it covers; each request
\* is judged on that same ledger, whatever its siblings cost, and an entry is
\* the whole building.
C11_BuildListIsFilter ==
  pc = "validated" =>
    \A p \in Pids :
      LET items == Get(RawOf(Decisions[decided[p]]), "build", PyList(<<>>))
          kept == IF items.t = "list"
                  THEN SelectSeq(items.v, LAMBDA item : C11_Eligible(item, gs.players[p]))
                  ELSE <<>>
      IN action[p].build = [i \in DOMAIN kept |-> [building |-> C11_Named(kept[i])]]

\* A Barracks and two Ranges were kept on a ledger that covers each of them
\* and not the three together; an unknown building and one of a later age
\* were dropped.
C11_Witness ==
  /\ pc = "validated"
  /\ decided["A"] = "build_three"
  /\ action["A"].build =
       <<[building |-> "Barracks"], [building |-> "Range"], [building |-> "Range"]>>
  /\ gs.players["A"].resources["wood"] < 260
  /\ gs.players["A"].age = 2

\* The string a move request gives for a field, "" when it gives none.
C12_Field(item, key) ==
  IF item.t = "dict" /\ key \in DOMAIN item.v /\ item.v[key].t = "str"
  THEN item.v[key].v ELSE ""

\* The count a move request asks for: 1 when left out, 0 when it is no integer.
C12_Requested(item) ==
  IF item.t # "dict" THEN 0
  ELSE IF "count" \notin DOMAIN item.v THEN 1
  ELSE IF IsInt(item.v["count"]) THEN IntVal(item.v["count"])
  ELSE 0

C12_Eligible(item, player) ==
  /\ C12_Field(item, "unit") \in UnitTypes
  /\ C12_Field(item, "from") \in ZoneSet
  /\ C12_Field(item, "to") \in ADJACENCY[C12_Field(item, "from")]
  /\ C12_Requested(item) >= 1
  /\ player.units[C12_Field(item, "from")][C12_Field(item, "unit")] >= 1

\* C12: every sanitized move entry names a known unit type and two adjacent
\* zones of the map, with a count of at least 1 that is the smaller of the
\* requested count and what the player has of that type in the source zone;
\* the sanitized list is exactly the requests for which that is possible, so a
\* request between zones that are unknown or not adjacent, or out of a zone
\* without the unit type, is not in it.
C12_MoveListIsFilterAndClamp ==
  pc = "validated" =>
    \A p \in Pids :
      LET items == Get(RawOf(Decisions[decided[p]]), "move", PyList(<<>>))
          kept == IF items.t = "list"
                  THEN SelectSeq(items.v, LAMBDA item : C12_Eligible(item, gs.players[p]))
                  ELSE <<>>
      IN /\ \A i \in DOMAIN action[p].move :
              LET e == action[p].move[i]
              IN /\ e.unit \in UnitTypes
                 /\ e.from \in ZoneSet /\ e.to \in ZoneSet
                 /\ e.to \in ADJACENCY[e.from]
                 /\ e.count >= 1
                 /\ e.count <= gs.players[p].units[e.from][e.unit]
         /\ action[p].move =
              [i \in DOMAIN kept |->
                 [unit |-> C12_Field(kept[i], "unit"),
                  count |-> Min(C12_Requested(kept[i]),
                                gs.players[p].units[C12_Field(kept[i], "from")]
                                                   [C12_Field(kept[i], "unit")]),
                  from |-> C12_Field(kept[i], "from"),
                  to |-> C12_Field(kept[i], "to")]]

\* Nine Militia asked out of a zone holding four came out as four.
C12_Witness ==
  /\ pc = "validated"
  /\ decided["B"] = "retreat_B"
  /\ gs.players["B"].units["Base_A"]["Militia"] = 4
  /\ action["B"].move =
       <<[unit |-> "Militia", count |-> 4, from |-> "Base_A", to |-> "Bot_A"]>>

\* What a raw task_villagers value asks for a resource: the integer it gives
\* when that is at least 0, else nothing.
C13_Requested(tasks, r) ==
  IF tasks.t = "dict" /\ r \in DOMAIN tasks.v /\ IsInt(tasks.v[r]) /\ IntVal(tasks.v[r]) >= 0
  THEN IntVal(tasks.v[r]) ELSE 0

\* C13: the sanitized villager assignment has food, wood and gold for its only
\* keys (a kind that is not in the map stands at 0 here), its sum is at most
\* the villagers the player has over all zones, and when the requested sum
\* exceeds that count each value is floor(requested * villagers / requested sum).
C13_TasksScaledByFloor ==
  pc = "validated" =>
    \A p \in Pids :
      LET tasks == Get(RawOf(Decisions[decided[p]]), "task_villagers", PyDict(EmptyMap))
          villagers == SumOver([z \in ZoneSet |-> gs.players[p].units[z]["Villager"]], ZoneSet)
          asked == SumOver([r \in Resources |-> C13_Requested(tasks, r)], Resources)
      IN /\ DOMAIN action[p].task_villagers = Resources
         /\ \A r \in Resources : action[p].task_villagers[r] >= 0
         /\ SumOver(action[p].task_villagers, Resources) <= villagers
         /\ asked > villagers =>
              \A r \in Resources :
                action[p].task_villagers[r] = (C13_Requested(tasks, r) * villagers) \div asked

\* The upgrades of a player as a set.
C14_Researched(player) == {player.upgrades[i] : i \in DOMAIN player.upgrades}

\* The upgrade that must have been researched before u, if any.
C14_Prerequisite(u) ==
  CASE u = "attack_2" -> {"attack_1"}
    [] u = "armor_2" -> {"armor_1"}
    [] OTHER -> {}

\* What C14 asks of a kept research request, on the player as validation
\* found it.
C14_Allowed(u, player) ==
  /\ u \in UpgradeNames
  /\ u \notin C14_Researched(player)
  /\ player.age >= UPGRADES[u].age
  /\ \E z \in ZoneSet : \E i \in DOMAIN player.buildings[z] :
       player.buildings[z][i] = UPGRADES[u].requires_building
  /\ C14_Prerequisite(u) \subseteq C14_Researched(player)
  /\ \A r \in Resources : player.resources[r] >= UPGRADES[u].cost[r]

\* C14: every research request validation keeps names a known upgrade that is
\* not yet researched, whose minimum age the player has, whose required
\* building the player has in some zone, whose prerequisite upgrade is already
\* researched and whose cost the ledger covers; and an upgrade with a
\* prerequisite enters a player's upgrade list only in a step before which the
\* prerequisite was in it, that is, was researched in an earlier tick.
C14_ResearchNeedsPrerequisites ==
  [][ /\ pc' = "validated" =>
           \A p \in Pids : \A i \in DOMAIN action'[p].research :
             C14_Allowed(action'[p].research[i].upgrade, gs'.players[p])
      /\ \A p \in Pids :
           \A u \in C14_Researched(gs'.players[p]) \ C14_Researched(gs.players[p]) :
             /\ pc = "validated"
             /\ C14_Prerequisite(u) \subseteq C14_Researched(gs.players[p]) ]_vars

\* A player of age 4 with a Blacksmith and the gold for it asked for attack_2
\* ahead of attack_1: attack_2 was dropped, attack_1 was kept.
C14_Witness ==
  /\ pc = "validated"
  /\ decided["B"] = "research_B"
  /\ gs.players["B"].age = 4
  /\ gs.players["B"].upgrades = <<>>
  /\ gs.players["B"].resources["gold"] >= 500
  /\ action["B"].research = <<[upgrade |-> "attack_1"], [upgrade |-> "attack_1"]>>

\* What the effects step spends for a player whose command has no build and
\* no train entry: the next age if the age rose, and each upgrade that is new
\* in the list once.
C15_Spent(before, after, r) ==
  (IF after.age > before.age /\ r \in DOMAIN AGE_ADVANCE_COSTS[after.age]
   THEN AGE_ADVANCE_COSTS[after.age][r] ELSE 0)
    + SumOver([u \in UpgradeNames |->
                 IF u \in C14_Researched(after) \ C14_Researched(before)
                 THEN UPGRADES[u].cost[r] ELSE 0],
              UpgradeNames)

\* C15: no upgrade is in a player's upgrade list twice, and over the effects
\* step the attack and armor bonus grow by the bonus of each upgrade that is
\* new in the list, once, and (for a command without build and train entries)
\* the ledger shrinks by the cost of each such upgrade, once: an upgrade that
\* was in the list before, or is named a second time in the same command,
\* costs nothing, adds no bonus and is not added again.
C15_ResearchIsIdempotent ==
  [][ \A p \in Pids :
        LET before == gs.players[p]
            after == gs'.players[p]
            new == C14_Researched(after) \ C14_Researched(before)
        IN /\ \A i, j \in DOMAIN after.upgrades :
                after.upgrades[i] = after.upgrades[j] => i = j
           /\ C14_Researched(before) \subseteq C14_Researched(after)
           /\ after.attack_bonus = before.attack_bonus
                + SumOver([u \in UpgradeNames |->
                             IF u \in new THEN UPGRADES[u].attack_bonus ELSE 0], UpgradeNames)
           /\ after.armor_bonus = before.armor_bonus
                + SumOver([u \in UpgradeNames |->
                             IF u \in new THEN UPGRADES[u].armor_bonus ELSE 0], UpgradeNames)
           /\ (pc = "validated" /\ action[p].build = <<>> /\ action[p].train = <<>>) =>
                \A r \in Resources :
                  after.resources[r] = before.resources[r] - C15_Spent(before, after, r) ]_vars

\* attack_1, named twice in the command of the tick before and researched
\* then, was named twice again: nothing was kept, and after the effects step
\* it is in the list once, with its bonus counted once.
C15_Witness ==
  /\ pc = "effects"
  /\ gs.turn = 49
  /\ decided["A"] = "sortie_A"
  /\ action["A"].research = <<>>
  /\ gs.players["A"].upgrades = <<"attack_1">>
  /\ gs.players["A"].attack_bonus = 2
  /\ gs.players["A"].resources["gold"] = 849 + 37 + 37 - 100

\* What a player pays for age n, per resource.
C16_Cost(n, r) ==
  CASE n = 2 -> [food |-> 400, wood |-> 200, gold |-> 0][r]
    [] n = 3 -> [food |-> 500, wood |-> 300, gold |-> 200][r]
    [] n = 4 -> [food |-> 0, wood |-> 800, gold |-> 500][r]

\* C16: each player's age is in 1..4 and never decreases; it changes only in
\* the effects step of a tick, by exactly one, and only when the player's
\* command asked for the advance and validation granted it, the player was
\* below age 4, and the ledger, which is the same at validation and when the
\* advance is applied, covered the full cost of the next age; the advance
\* then takes exactly that cost from the ledger (checked on commands that
\* spend on nothing else).
C16_AgeAdvance ==
  [][ \A p \in Pids :
        LET before == gs.players[p]
            after == gs'.players[p]
        IN /\ before.age \in 1 .. 4
           /\ after.age \in 1 .. 4
           /\ after.age >= before.age
           /\ after.age # before.age =>
                /\ pc = "validated"
                /\ after.age = before.age + 1
                /\ before.age < 4
                /\ Truthy(Get(RawOf(Decisions[decided[p]]), "advance_age", PyBool(FALSE)))
                /\ action[p].advance_age
                /\ \A r \in Resources : before.resources[r] >= C16_Cost(after.age, r)
                /\ (action[p].build = <<>> /\ action[p].train = <<>>
                      /\ action[p].research = <<>>) =>
                     \A r \in Resources :
                       after.resources[r] = before.resources[r] - C16_Cost(after.age, r) ]_vars

\* B asked for the advance at age 3 with the ledger to pay for it and is at
\* age 4, 800 wood and 500 gold poorer.
C16_Witness ==
  /\ pc = "effects"
  /\ gs.turn = 48
  /\ decided["B"] = "advance_B"
  /\ gs.players["B"].age = 4
  /\ gs.players["B"].resources = [food |-> 1313, wood |-> 652, gold |-> 826]

\* Counts an opponent may have of one unit type in a zone the player does not see.
MaxHidden == 2

\* The observations in obs have just been built from the match state as it is.
C17_ObservationCurrent == pc = "awaiting" /\ \A p \in Pids : decided[p] = "pending"

\* The zone is in the player's own half or holds one of the player's units.
C17_Seen(p, zone) ==
  \/ p = "A" /\ zone \in {"Base_A", "Top_A", "Mid_A", "Bot_A"}
  \/ p = "B" /\ zone \in {"Base_B", "Top_B", "Mid_B", "Bot_B"}
  \/ \E u \in UnitTypes : gs.players[p].units[zone][u] > 0

\* The match state with the opponent of p holding c units of type u in zone.
C17_With(p, zone, u, c) ==
  [gs EXCEPT !.players[Other(p)].units[zone][u] = c]

\* C17: in the observation built for a player, the opposing units of a zone
\* are the opponent's positive unit counts when the zone is in the player's
\* own half or holds one of the player's units, and empty otherwise; and a
\* match state that differs from the observed one only in an opponent count in
\* a zone the player does not see gives the same visible_zones.
C17_FogOfWar ==
  C17_ObservationCurrent =>
    \A p \in Pids :
      /\ \A zone \in ZoneSet :
           LET theirs == gs.players[Other(p)].units[zone]
               reported == obs[p].visible_zones[zone].enemy_units
           IN IF C17_Seen(p, zone)
              THEN /\ DOMAIN reported = {u \in UnitTypes : theirs[u] > 0}
                   /\ \A u \in DOMAIN reported : reported[u] = theirs[u]
              ELSE DOMAIN reported = {}
      /\ \A zone \in ZoneSet : \A u \in UnitTypes : \A c \in 0 .. MaxHidden :
           ~C17_Seen(p, zone) =>
             build_observation(C17_With(p, zone, u, c), p).visible_zones
               = obs[p].visible_zones

\* A is shown B's four Militia in Base_A and nothing of B's six villagers in Mid_B.
C17_Witness ==
  /\ pc = "awaiting"
  /\ gs.players["B"].units["Mid_B"]["Villager"] = 6
  /\ obs["A"].visible_zones["Mid_B"].enemy_units = <<>>
  /\ gs.players["B"].units["Base_A"]["Militia"] = 4
  /\ obs["A"].visible_zones["Base_A"].enemy_units = [Militia |-> 4]
  /\ obs["A"].visible_zones["Base_B"].your_units = [Militia |-> 4]

\* Both players have a unit in the home zone of p, in match state g.
C18_Contested(g, p) ==
  \A q \in Pids : \E u \in UnitTypes : g.players[q].units[g.players[p].base_zone][u] > 0

\* Over the step, the Wall and the town center of p keep their hit points.
C18_NotBesieged(p) ==
  /\ gs'.players[p].town_center_hp = gs.players[p].town_center_hp
  /\ gs'.players[p].building_hp[gs.players[p].base_zone]["Wall"]
       = gs.players[p].building_hp[gs.players[p].base_zone]["Wall"]

\* C18: a home zone in which both players have units when the combat
\* resolution of a tick begins (no zone's resolution touches the units of
\* another zone) loses no Wall and no town-center hit points in that tick.
C18_ContestedAtStartNotBesieged ==
  [][ \A p \in Pids : (pc = "effects" /\ C18_Contested(gs, p)) => C18_NotBesieged(p) ]_vars

\* C18 as amended: a home zone in which both players still have units when
\* its tower fire and field combat are over loses no Wall and no town-center
\* hit points in that tick.
C18_ContestedAtEndNotBesieged ==
  [][ \A p \in Pids : (pc = "effects" /\ C18_Contested(gs', p)) => C18_NotBesieged(p) ]_vars

\* A's three Archers went home into the four Militia besieging Base_A; two
\* Archers and three Militia fell, one of each still stands there, and the
\* Wall (116 with the second Wall built in this tick) and the town center
\* have the hit points they had before the combat.
C18_Witness ==
  /\ pc = "combat"
  /\ gs.turn = 48
  /\ decided["A"] = "archers_A"
  /\ C18_Contested(gs, "A")
  /\ gs.players["A"].units_lost = 2
  /\ gs.players["B"].units_lost = 3
  /\ gs.players["A"].building_hp["Base_A"]["Wall"] = 116
  /\ gs.players["A"].town_center_hp = 92

\* The opponent of p alone has units in the home zone of p, in match state g.
C19_Besieged(g, p) ==
  /\ \E u \in UnitTypes : g.players[Other(p)].units[g.players[p].base_zone][u] > 0
  /\ \A u \in UnitTypes : g.players[p].units[g.players[p].base_zone][u] = 0

\* The siege hit of the units the opponent of p has in the home zone of p.
C19_Hit(g, p) ==
  SumOver([u \in UnitTypes |->
             UNITS[u].atk * g.players[Other(p)].units[g.players[p].base_zone][u]],
          UnitTypes)

\* C19: when a siege hit of d lands on a home zone whose Wall has w > 0 hit
\* points, the Wall is left with w - min(d, w) and the town center loses
\* max(0, d - w), stopping at 0.
C19_WallAbsorbs ==
  [][ \A p \in Pids :
        LET zone == gs.players[p].base_zone
            w == gs.players[p].building_hp[zone]["Wall"]
            d == C19_Hit(gs', p)
            absorbed == IF d < w THEN d ELSE w
            through == IF d > w THEN d - w ELSE 0
            tc == gs.players[p].town_center_hp
        IN (pc = "effects" /\ C19_Besieged(gs', p) /\ w > 0) =>
             /\ gs'.players[p].building_hp[zone]["Wall"] = w - absorbed
             /\ gs'.players[p].town_center_hp = IF tc > through THEN tc - through ELSE 0 ]_vars

\* Four Militia (12 a hit) met a Wall of 4: the Wall is gone and the town
\* center, 92 before, stands at 84.
C19_Witness ==
  /\ pc = "combat"
  /\ gs.turn = 49
  /\ C19_Besieged(gs, "A")
  /\ C19_Hit(gs, "A") = 12
  /\ gs.players["A"].building_hp["Base_A"]["Wall"] = 0
  /\ \A i \in DOMAIN gs.players["A"].buildings["Base_A"] :
       gs.players["A"].buildings["Base_A"][i] # "Wall"
  /\ gs.players["A"].town_center_hp = 84

\* The counter target of a unit type is among the opposing units.
C20_Countered(u, opposing) ==
  \/ u = "Archer" /\ (opposing["Villager"] > 0 \/ opposing["Militia"] > 0)
  \/ u = "Knight" /\ opposing["Archer"] > 0

\* Twice the field damage C20 gives a side with these units and this attack
\* bonus against these opposing units (twice, to stay in the integers).
C20_Damage2(units, attack_bonus, opposing) ==
  SumOver([u \in UnitTypes |->
             IF units[u] > 0
             THEN (UNITS[u].atk + attack_bonus) * units[u]
                    * (IF C20_Countered(u, opposing) THEN 3 ELSE 2)
             ELSE 0],
          UnitTypes)

\* A player without upgrades whose only units are n of type u in Mid_A.
C20_Army(u, n) ==
  [NewPlayer("A", "Base_A") EXCEPT !.units = [z \in ZoneSet |->
     IF z = "Mid_A" THEN [NoUnits EXCEPT ![u] = n] ELSE NoUnits]]

\* C20: in every zone where both players have units when combat begins, the
\* damage of each side is the sum over its unit types there of (base attack +
\* attack bonus) * count * m, with m = 1.5 when the type's counter target is
\* among the opposing units of the zone (Villager or Militia for the Archer,
\* the Archer for the Knight) and 1 otherwise; and 10 Archers deal 40 against
\* 5 Knights and 60 against 5 Militia.
C20_FieldDamage ==
  /\ pc = "effects" =>
       \A p \in Pids : \A zone \in ZoneSet :
         LET mine == gs.players[p].units[zone]
             theirs == gs.players[Other(p)].units[zone]
         IN ((\E u \in UnitTypes : mine[u] > 0) /\ (\E u \in UnitTypes : theirs[u] > 0)) =>
              _compute_total_damage(gs.players[p], gs.players[Other(p)], zone)
                = C20_Damage2(mine, gs.players[p].attack_bonus, theirs)
  /\ _compute_total_damage(C20_Army("Archer", 10), C20_Army("Knight", 5), "Mid_A") = 2 * 40
  /\ _compute_total_damage(C20_Army("Archer", 10), C20_Army("Militia", 5), "Mid_A") = 2 * 60

\* Three Archers and two Knights with +2 attack met four Militia in Base_A:
\* 6 * 3 * 1.5 + 8 * 2 = 43 against the Militia, who all fell, and 3 * 4 = 12
\* against A, who lost a Knight.
C20_Witness ==
  /\ pc = "combat"
  /\ gs.turn = 48
  /\ decided["A"] = "sortie_A"
  /\ gs.players["A"].attack_bonus = 2
  /\ gs.players["A"].units["Base_A"] = [NoUnits EXCEPT !["Archer"] = 3, !["Knight"] = 1]
  /\ gs.players["B"].units["Base_A"] = NoUnits
  /\ gs.players["B"].units_lost = 4
  /\ gs.players["A"].units_lost = 1

\* The units player p has in a zone, in match state g.
C21_InZone(g, p, zone) == SumOver(g.players[p].units[zone], UnitTypes)

\* C21: over the combat resolution of a tick, in every zone every player
\* loses at most the units it had there before (no count of a type grows or
\* falls below 0), and the player's units_lost counter grows by exactly the
\* units removed over all zones.
C21_LossesWithinUnits ==
  [][ pc = "effects" =>
        \A p \in Pids :
          /\ \A zone \in ZoneSet :
               /\ \A u \in UnitTypes :
                    /\ gs'.players[p].units[zone][u] >= 0
                    /\ gs'.players[p].units[zone][u] <= gs.players[p].units[zone][u]
               /\ C21_InZone(gs, p, zone) - C21_InZone(gs', p, zone) <= C21_InZone(gs, p, zone)
          /\ gs'.players[p].units_lost - gs.players[p].units_lost
               = SumOver([zone \in ZoneSet |->
                            C21_InZone(gs, p, zone) - C21_InZone(gs', p, zone)], ZoneSet) ]_vars

\* A's new Tower fired at the four Militia in Base_A and A's two Knights
\* fought the rest: one Militia fell to the Tower and two in the field, and
\* one Knight fell.
C21_Witness ==
  /\ pc = "combat"
  /\ gs.turn = 48
  /\ decided["A"] = "tower_A"
  /\ TowerCount(gs.players["A"], "Base_A") = 1
  /\ gs.players["B"].units["Base_A"]["Militia"] = 1
  /\ gs.players["B"].units_lost = 3
  /\ gs.players["A"].units["Base_A"]["Knight"] = 1
  /\ gs.players["A"].units_lost = 1

\* C22: every snapshot handed to the renderer, the turn-log writer or the web
\* broadcast is the state of a tick that has run to its end, the increment of
\* the turn counter included: the counter it shows is one past the number of
\* the loop iteration that handed it out.
C22_PublishedTickComplete ==
  [][ published' # published =>
        \A i \in DOMAIN published' : published'[i].gs.turn = loop_turn + 1 ]_vars

\* C23: once the stop signal is set, the tick in progress runs to its end, the
\* increment of the turn counter included (when the loop is left the counter
\* is one past the number of the iteration that was running), and no further
\* tick is started (the match never stands at the start of a tick with the
\* signal set).
C23_StopAtTickBoundary ==
  stop_event =>
    /\ pc # "idle"
    /\ pc \in {"after_loop", "done"} => gs.turn = loop_turn + 1

\* C24: the turn counter of a new game starts at 1; a step changes it only
\* when it ends a tick that ran through all its phases, and then by exactly
\* one, also when that tick decided the outcome; a tick aborted by a fault
\* leaves it as it was, and after a fault no tick is started.
C24_TurnCounter ==
  [][ /\ (Scenarios[scen].gs = NewGame /\ pc = "idle" /\ published = <<>>) => gs.turn = 1
      /\ gs'.turn = IF pc = "outcome" /\ fault' = "none" THEN gs.turn + 1 ELSE gs.turn
      /\ fault' # "none" => pc' \in {"after_loop", "done"} ]_vars

\* A tick that decided the outcome has ended and the counter has moved on.
C24_Witness ==
  /\ pc = "after_loop" /\ fault = "none"
  /\ gs.winner \in Pids /\ run_winner = gs.winner
  /\ gs.turn = loop_turn + 1

\* The counts the "queued" entries written by one step report for a player
\* and a unit type, summed.
C25_Reported(g, g2, pid, unit) ==
  LET new == { i \in (Len(g.log) + 1) .. Len(g2.log) :
                 /\ g2.log[i].kind = "queued" /\ g2.log[i].pid = pid
                 /\ g2.log[i].info[2] = unit }
  IN SumOver([i \in new |-> g2.log[i].info[1]], new)

\* The items of a unit type in a player's production queue.
C25_InQueue(g, pid, unit) ==
  Cardinality({ i \in DOMAIN g.players[pid].production_queue :
                  g.players[pid].production_queue[i].unit_type = unit })

\* C25: the event-log entries written for the training orders of a tick report
\* the units those orders added to the production queue: per player and unit
\* type, the reported counts add up to the growth of the queue, also when the
\* deduction loop stopped early.
C25_QueuedLogIsActual ==
  [][ pc = "validated" =>
        \A p \in Pids : \A u \in UnitTypes :
          C25_Reported(gs, gs', p, u) = C25_InQueue(gs', p, u) - C25_InQueue(gs, p, u) ]_vars

\* The match state when both decision calls have come back, had the call of
\* player `first` come back first: g with the failure entries of this tick
\* taken off the log and written again in that order.
C26_HadReturnedFirst(g, first, d) ==
  LET failures == Cardinality({ p \in Pids : Decisions[d[p]].k \in {"timeout", "error"} })
      before == [g EXCEPT !.log = SubSeq(@, 1, Len(@) - failures)]
  IN LogFailure(LogFailure(before, first, Decisions[d[first]]),
                Other(first), Decisions[d[Other(first)]])

\* C26: for fixed results of the two decision calls, the match state the rest
\* of the tick starts from, the event log with its order included, is the one
\* either order of completion would have given.
C26_CompletionOrderIrrelevant ==
  [][ (pc = "awaiting" /\ pc' = "decided") =>
        \A first \in Pids : gs' = C26_HadReturnedFirst(gs', first, decided') ]_vars

\* C27: after the first tick of a new game in which both players sent all
\* three villagers to food and moved nothing, each player holds the starting
\* resources plus the income of villagers without a task (+9 food, +6 wood,
\* +5 gold), the new assignment is stored, no unit was trained or lost, and the
\* event log holds no combat entry.
C27_FirstTickAllFood ==
  ( /\ Scenarios[scen].gs = NewGame /\ gs.turn = 2
    /\ pc = "idle" \/ (pc = "after_loop" /\ loop_turn = 1)
    /\ \A p \in Pids : decided[p] = "all_food" )
  => /\ \A p \in Pids :
          LET player == gs.players[p]
              gain == Income(NewGame.players[p])
          IN /\ gain = [food |-> 9, wood |-> 6, gold |-> 5]
             /\ player.resources = [r \in Resources |-> STARTING_RESOURCES[r] + gain[r]]
             /\ player.villager_tasks = [food |-> 3, wood |-> 0, gold |-> 0]
             /\ player.units = NewGame.players[p].units
             /\ player.production_queue = <<>>
             /\ player.units_lost = 0 /\ player.units_killed = 0
     /\ \A i \in DOMAIN gs.log : gs.log[i].kind \notin {"combat", "tower", "lost", "wall_destroyed",
                                                      "wall_absorbed", "tc_hit"}

\* The first tick with both players tasking all villagers to food has ended.
C27_Witness ==
  /\ Scenarios[scen].gs = NewGame /\ gs.turn = 2 /\ pc = "idle"
  /\ \A p \in Pids : decided[p] = "all_food"
  /\ gs.players["A"].resources["food"] = 209
  /\ gs.players["B"].villager_tasks["food"] = 3

\* The score as the rule states it: resources spent so far, twice the value of
\* the units in all zones, ten for each entry of the building lists.
C28_Score(player) ==
  LET held == ZoneSet \X UnitTypes
  IN player.resources_banked
       + 2 * SumOver([zu \in held |-> UNIT_VALUE[zu[2]] * player.units[zu[1]][zu[2]]], held)
       + 10 * SumOver([z \in ZoneSet |-> Len(player.buildings[z])], ZoneSet)

\* What a player holds of all three resources together.
C28_Held(player) == SumOver(player.resources, Resources)

\* A match state at the turn limit with scores 500 and 480.
C28_Example ==
  [NewGame EXCEPT !.turn = TURN_LIMIT,
                  !.players["A"].resources_banked = 500 - 2 * 3 * UNIT_VALUE["Villager"],
                  !.players["B"].resources_banked = 480 - 2 * 3 * UNIT_VALUE["Villager"]]

\* C28: the score the evaluator works with is resources spent + 2 * value of
\* the units + 10 * number of buildings, the counter of resources spent
\* growing by what the effects of a tick take from the ledger; at the turn
\* limit with both town centers standing the evaluator gives the match to the
\* strictly higher score and calls equal scores a draw, as a function of the
\* state alone (500 against 480 gives it to the 500 side).
C28_ScoreDecidesAtTurnLimit ==
  [][ /\ pc = "validated" =>
            \A p \in Pids :
              gs'.players[p].resources_banked - gs.players[p].resources_banked
                = C28_Held(gs.players[p]) - C28_Held(gs'.players[p])
      /\ pc = "combat" =>
            LET score_a == C28_Score(gs.players["A"])
                score_b == C28_Score(gs.players["B"])
                outcome == IF score_a > score_b THEN "A"
                           ELSE IF score_b > score_a THEN "B" ELSE "draw"
            IN /\ score(gs.players["A"]) = score_a /\ score(gs.players["B"]) = score_b
               /\ ( /\ gs.turn >= TURN_LIMIT
                    /\ \A p \in Pids : gs.players[p].town_center_hp > 0 )
                  => ret' = outcome /\ gs'.winner = outcome
               /\ score(C28_Example.players["A"]) = 500
               /\ score(C28_Example.players["B"]) = 480
               /\ VictoryOutcome(C28_Example) = "A" ]_vars

\* The evaluator has given a match with both town centers standing to the
\* higher score at the turn limit.
C28_Witness ==
  /\ pc = "outcome" /\ gs.turn = TURN_LIMIT
  /\ \A p \in Pids : gs.players[p].town_center_hp > 0
  /\ ret \in Pids /\ gs.winner = ret
  /\ score(gs.players[ret]) > score(gs.players[Other(ret)])

\* The amount of resource r in a cost (a cost names only the kinds it takes).
C29_Amount(cost, r) == IF r \in DOMAIN cost THEN cost[r] ELSE 0

\* What the things player p obtained between g and g2 cost in resource r: the
\* age reached, the upgrades gained, the units put into the production queue,
\* the buildings added to the building list of the home zone.
C29_CostOfObtained(g, g2, p, r) ==
  LET old == g.players[p]
      new == g2.players[p]
      base == old.base_zone
      gained == (Len(old.upgrades) + 1) .. Len(new.upgrades)
      added == (Len(old.buildings[base]) + 1) .. Len(new.buildings[base])
  IN (IF new.age > old.age THEN C29_Amount(AGE_ADVANCE_COSTS[new.age], r) ELSE 0)
     + SumOver([k \in gained |-> C29_Amount(UPGRADES[new.upgrades[k]].cost, r)], gained)
     + SumOver([u \in UnitTypes |->
                  (C25_InQueue(g2, p, u) - C25_InQueue(g, p, u)) * C29_Amount(UNITS[u].cost, r)],
               UnitTypes)
     + SumOver([k \in added |-> C29_Amount(BUILDINGS[new.buildings[base][k]].cost, r)], added)

\* C29: in every tick the cost of a validated build entry is taken from the
\* ledger if and only if the building is added to the building list: when the
\* effects of a tick are applied, each resource of each player goes down by
\* exactly the cost of what the player obtained (age, upgrades, queued units,
\* buildings added), so nothing is charged for an entry that was skipped as
\* unaffordable after the age advance and the research of the same tick.
C29_ChargedIffBuilt ==
  [][ pc = "validated" =>
        \A p \in Pids : \A r \in Resources :
          gs.players[p].resources[r] - gs'.players[p].resources[r]
            = C29_CostOfObtained(gs, gs', p, r) ]_vars

\* C30: in every state, for each player, the building list of the home zone
\* holds a Wall if and only if the Wall hit points tracked for that zone are
\* above zero; a Wall brought to zero by a siege leaves no Wall in the list,
\* however many Walls the player had built.
C30_WallListedIffStanding ==
  \A p \in Pids :
    LET player == gs.players[p]
        base == player.base_zone
    IN (\E i \in DOMAIN player.buildings[base] : player.buildings[base][i] = "Wall")
         <=> player.building_hp[base]["Wall"] > 0

\* The units of one type lost to r2 / 2 damage not yet applied, h being the
\* hit points of one unit: min(count, ceil(r / h)).
C31_Lost(count, r2, h) ==
  IF r2 <= 0 THEN 0 ELSE Min(count, (r2 + 2 * h - 1) \div (2 * h))

RECURSIVE C31_Distribute(_, _, _, _)
\* The unit counts left of `units` after damage r2 / 2, the types of `types`
\* taken in descending hit points: a type wiped out takes count * h off the
\* damage, a type that survives takes all of it.
C31_Distribute(units, types, r2, armor) ==
  IF types = {} THEN units
  ELSE LET top == CHOOSE u \in types : \A w \in types : UNITS[u].hp >= UNITS[w].hp
           h == UNITS[top].hp + armor
           lost == C31_Lost(units[top], r2, h)
           left2 == IF lost = units[top] THEN r2 - units[top] * 2 * h ELSE 0
       IN C31_Distribute([units EXCEPT ![top] = @ - lost], types \ {top}, left2, armor)

\* What the claim makes of one zone's tower phase and field round: per player
\* the unit counts left.
C31_ZoneAfter(g, zone) ==
  LET fired(p) ==
        LET towers == TowerCount(g.players[Other(p)], zone)
            units == g.players[p].units[zone]
        IN IF towers > 0
           THEN C31_Distribute(units, {u \in UnitTypes : units[u] > 0},
                               2 * towers * BUILDINGS["Tower"].damage_per_turn,
                               g.players[p].armor_bonus)
           ELSE units
      g1 == [g EXCEPT !.players["A"].units[zone] = fired("A"),
                      !.players["B"].units[zone] = fired("B")]
      fought(p) ==
        LET units == g1.players[p].units[zone]
        IN C31_Distribute(units, {u \in UnitTypes : units[u] > 0},
                          _compute_total_damage(g1.players[Other(p)], g1.players[p], zone),
                          g1.players[p].armor_bonus)
  IN IF \A p \in Pids : \E u \in UnitTypes : g1.players[p].units[zone][u] > 0
     THEN [p \in Pids |-> fought(p)]
     ELSE [p \in Pids |-> g1.players[p].units[zone]]

\* C31: damage is distributed over the defender's unit types of the zone in
\* descending hit points, each type losing min(count, ceil(r / h)) units with
\* h = base hit points + armor bonus; a type wiped out takes count * h off r,
\* a type that survives ends the distribution: the unit counts every combat
\* resolution leaves in every zone are the ones this rule gives.
C31_DamageDistribution ==
  [][ pc = "effects" =>
        \A zone \in ZoneSet : \A p \in Pids :
          gs'.players[p].units[zone] = C31_ZoneAfter(gs, zone)[p] ]_vars

\* Four Militia with +2 attack dealt 20 damage to a Knight (15 hit points)
\* and three Archers (6): the Knight fell, the 5 left over killed one Archer.
C31_Witness ==
  /\ pc = "combat"
  /\ decided = [A |-> "escort_A", B |-> "research_B"]
  /\ gs.players["B"].attack_bonus = 2
  /\ gs.players["A"].units["Base_A"] = [NoUnits EXCEPT !["Archer"] = 2]
  /\ gs.players["A"].units_lost = 2

\* C32: in the resolution of a zone the towers fire first; when both players
\* still have units there, each side then takes the damage the other side's
\* units deal as they stand after the tower phase, whatever the other side
\* loses in the same round.
C32_TowersThenSimultaneous ==
  [][ pc = "effects" =>
        \A zone \in ZoneSet :
          LET g1 == _apply_tower_damage(gs, zone)
              met == \A p \in Pids : Present(g1.players[p], zone) # {}
          IN \A p \in Pids :
               gs'.players[p].units[zone] =
                 IF met
                 THEN _apply_damage(g1, p, zone,
                                    _compute_total_damage(g1.players[Other(p)],
                                                          g1.players[p], zone)
                                   ).players[p].units[zone]
                 ELSE g1.players[p].units[zone] ]_vars

\* A's new Tower in Base_A fired at the four Militia before the two Knights
\* met them: the log has the tower entry ahead of the combat entry, three
\* Militia and one Knight fell.
C32_Witness ==
  /\ pc = "combat"
  /\ decided["A"] = "tower_A"
  /\ \E i, j \in DOMAIN gs.log :
       /\ i < j
       /\ gs.log[i].kind = "tower" /\ gs.log[i].pid = "A"
       /\ gs.log[j].kind = "combat" /\ gs.log[j].info = <<"Base_A">>
  /\ gs.players["B"].units["Base_A"]["Militia"] = 1
  /\ gs.players["A"].units["Base_A"]["Knight"] = 1

\* The damage a siege of p's home zone does in match state g: base attack
\* times count, summed over the opponent's units there.
C33_SiegeDamage(g, p) ==
  LET zone == g.players[p].base_zone
      units == g.players[Other(p)].units[zone]
  IN SumOver([u \in UnitTypes |-> UNITS[u].atk * units[u]], UnitTypes)

\* After the tower and field phases the opponent has units in p's home zone
\* and p has none.
C33_Undefended(g, p) ==
  LET zone == g.players[p].base_zone
  IN /\ \E u \in UnitTypes : g.players[Other(p)].units[zone][u] > 0
     /\ \A u \in UnitTypes : g.players[p].units[zone][u] = 0

\* C33: town-center hit points never go up, never go below 0 and change only
\* when combat is resolved; the Wall and the town center of a home zone
\* together then lose the sum of base attack * count of the opponent's units
\* there (no counter multiplier, no attack bonus), as far as they have hit
\* points, when the zone is left to the opponent after its tower and field
\* phases, and nothing otherwise.
C33_SiegeOnlyUndefended ==
  [][ \A p \in Pids :
        LET zone == gs.players[p].base_zone
            tc == gs.players[p].town_center_hp
            wall == gs.players[p].building_hp[zone]["Wall"]
            taken == (tc - gs'.players[p].town_center_hp)
                       + (wall - gs'.players[p].building_hp[zone]["Wall"])
        IN /\ gs'.players[p].town_center_hp <= tc
           /\ gs'.players[p].town_center_hp >= 0
           /\ pc # "effects" => gs'.players[p].town_center_hp = tc
           /\ pc = "effects" =>
                 /\ gs'.players[p].town_center_hp <= tc
                 /\ taken = IF C33_Undefended(gs', p)
                            THEN Min(C33_SiegeDamage(gs', p), tc + wall) ELSE 0 ]_vars

\* Four Militia with +2 attack stood alone in Base_A: the Wall of 16 took
\* 4 * 3 = 12.
C33_Witness ==
  /\ pc = "combat"
  /\ decided = [A |-> "empty", B |-> "research_B"]
  /\ gs.players["B"].attack_bonus = 2
  /\ gs.players["B"].units["Base_A"]["Militia"] = 4
  /\ gs.players["A"].building_hp["Base_A"]["Wall"] = 4
  /\ gs.players["A"].town_center_hp = 92

\* The assignment income is to be computed from: the stored one, each count n
\* replaced by floor(n * V / sum) when the sum exceeds the V villagers owned,
\* emptied when there is no villager.
C34_Rescaled(player) ==
  LET V == TotalVillagers(player)
      sum == SumOver(player.villager_tasks, Resources)
  IN IF V = 0 THEN [r \in Resources |-> 0]
     ELSE IF sum > V
       THEN [r \in Resources |-> (player.villager_tasks[r] * V) \div sum]
     ELSE player.villager_tasks

\* What one economy tick is to add to a player's ledger.
C34_Added(player) ==
  LET t == C34_Rescaled(player)
      idle == TotalVillagers(player) - SumOver(t, Resources)
  IN [ food |-> 15 * t["food"] + 3 * idle,
       wood |-> 12 * t["wood"] + 2 * idle,
       gold |-> 8 * t["gold"] + 5 ]

\* C34: the economy tick adds to each player 15 food, 12 wood and 8 gold for
\* each villager of the stored assignment (rescaled by floor(n * V / sum) when
\* it exceeds the V villagers owned, emptied when V = 0), 3 food and 2 wood
\* for each idle villager, and 5 gold in any case.
C34_EconomyIncome ==
  [][ pc = "idle" /\ pc' = "awaiting" =>
        \A p \in Pids : \A r \in Resources :
          gs'.players[p].resources[r] =
            gs.players[p].resources[r] + C34_Added(gs.players[p])[r] ]_vars

\* The items of a queue that have more than one turn left, in their order,
\* each with one turn less.
C35_Remaining(queue) ==
  LET keep == SelectSeq(queue, LAMBDA item : item.turns_left > 1)
  IN [i \in DOMAIN keep |-> [keep[i] EXCEPT !.turns_left = @ - 1]]

\* The number of items of a unit type in a queue that have one turn left.
C35_Due(queue, unit) ==
  Cardinality({ i \in DOMAIN queue :
                  queue[i].unit_type = unit /\ queue[i].turns_left = 1 })

\* C35: a unit queued in tick t with training duration k graduates in the
\* economy phase of tick t + k and not before.  An item enters the queue at
\* its end with k turns left, in the effects phase; the economy phase of each
\* later tick takes one turn off every item, removes the items that reach
\* zero, adds one unit of its type to the owner's home zone for each of them,
\* and leaves the others in their order; no other step touches the queue,
\* and every tick has one economy phase.
C35_TrainingDuration ==
  [][ \A p \in Pids :
        LET player == gs.players[p]
            queue == player.production_queue
            queue_after == gs'.players[p].production_queue
        IN /\ \A i \in DOMAIN queue_after : queue_after[i].turns_left >= 1
           /\ pc = "idle" /\ pc' = "awaiting" =>
                 /\ queue_after = C35_Remaining(queue)
                 /\ \A z \in ZoneSet : \A u \in UnitTypes :
                       gs'.players[p].units[z][u] =
                         player.units[z][u]
                           + (IF z = player.base_zone THEN C35_Due(queue, u) ELSE 0)
                 /\ gs'.turn = gs.turn
           /\ pc = "validated" /\ pc' = "effects" =>
                 /\ Len(queue_after) >= Len(queue)
                 /\ SubSeq(queue_after, 1, Len(queue)) = queue
                 /\ \A i \in (Len(queue) + 1) .. Len(queue_after) :
                       queue_after[i].turns_left = UNITS[queue_after[i].unit_type].train_turns
           /\ ~(pc = "idle" /\ pc' = "awaiting") /\ ~(pc = "validated" /\ pc' = "effects")
                 => queue_after = queue
           /\ pc' = "idle" /\ pc # "idle" => gs'.turn = gs.turn + 1 ]_vars

\* A queued a Knight, a Militia, two Archers and a Villager in turn 45; the
\* economy phase of turn 46 has put the Militia and the Villager into Base_A
\* and left the Knight with 2 turns ahead of the Archers with 1.
C35_Witness ==
  /\ pc = "awaiting"
  /\ gs.turn = 46
  /\ Scenarios[scen].gs = Snapshot45
  /\ gs.players["A"].production_queue =
       << [unit_type |-> "Knight", turns_left |-> 2],
          [unit_type |-> "Archer", turns_left |-> 1],
          [unit_type |-> "Archer", turns_left |-> 1] >>
  /\ gs.players["A"].units["Base_A"]["Militia"] = 1
  /\ gs.players["A"].units["Base_A"]["Villager"] = 1

\* The match state the training orders of a tick are processed in: age
\* advance, villager tasks, research and building have been applied.
C36_BeforeTrains(g, actions) ==
  LET a == actions["A"]
      b == actions["B"]
      g1 == _process_advance_age(_process_advance_age(g, "A", a), "B", b)
      g2 == _process_task_villagers(_process_task_villagers(g1, "A", a), "B", b)
      g3 == _process_research(_process_research(g2, "A", a), "B", b)
  IN _process_builds(_process_builds(g3, "A", a), "B", b)

\* The most units of a type, up to count, that a ledger pays for.
C36_Affordable(ledger, unit, count) ==
  LET pays == { m \in 0 .. count :
                  m = 0 \/ \A r \in Resources : m * UNITS[unit].cost[r] <= ledger[r] }
  IN CHOOSE m \in pays : \A k \in pays : k <= m

RECURSIVE C36_Walk(_, _, _, _)
\* The validated train entries from the i-th on, taken in command order: each
\* queues min(its count, what the ledger as it stands pays for) items and
\* takes that many unit costs off the ledger.
C36_Walk(ledger, items, i, queued) ==
  IF i > Len(items) THEN [ledger |-> ledger, queued |-> queued]
  ELSE LET unit == items[i].unit
           n == C36_Affordable(ledger, unit, items[i].count)
       IN C36_Walk([r \in Resources |-> ledger[r] - n * UNITS[unit].cost[r]],
                   items, i + 1,
                   queued \o [k \in 1 .. n |->
                                [unit_type |-> unit,
                                 turns_left |-> UNITS[unit].train_turns]])

\* C36: the validated train entries of a player are processed in command
\* order; each appends min(validated count, units affordable from the ledger
\* as it stands when the entry is reached) items to the production queue and
\* takes exactly that many unit costs off the ledger, and training does not
\* take a resource below zero.  (The charge for the validated builds is taken
\* off after the training.)
C36_TrainWhatIsAffordable ==
  [][ pc = "validated" /\ pc' = "effects" =>
        \A p \in Pids :
          LET before == C36_BeforeTrains(gs, action).players[p]
              walk == C36_Walk(before.resources, action[p].train, 1, <<>>)
              trained == [before EXCEPT !.resources = walk.ledger]
          IN /\ gs'.players[p].production_queue = before.production_queue \o walk.queued
             /\ gs'.players[p].resources = deduct_costs(action[p], trained).resources
             /\ \A r \in Resources :
                   walk.ledger[r] >= Min(0, before.resources[r]) ]_vars

\* With 103 food in turn 17 B was granted two Villagers, one Villager and
\* one Militia; the first entry took 100 food and the two later entries
\* queued nothing.
C36_Witness ==
  /\ pc = "effects"
  /\ gs.turn = 17
  /\ decided["B"] = "train_mixed"
  /\ action["B"].train = << [unit |-> "Villager", count |-> 2],
                            [unit |-> "Villager", count |-> 1],
                            [unit |-> "Militia", count |-> 1] >>
  /\ gs.players["B"].production_queue =
       << [unit_type |-> "Villager", turns_left |-> 1],
          [unit_type |-> "Villager", turns_left |-> 1] >>
  /\ gs.players["B"].resources["food"] = 3

\* A player's upgrade list names no upgrade twice, and its two bonuses are
\* the sums of the bonuses of the upgrades listed.
C37_Consistent(player) ==
  LET listed == player.upgrades
  IN /\ \A i, j \in DOMAIN listed : listed[i] = listed[j] => i = j
     /\ \A i \in DOMAIN listed : listed[i] \in UpgradeNames
     /\ player.attack_bonus =
          SumOver([i \in DOMAIN listed |-> UPGRADES[listed[i]].attack_bonus], DOMAIN listed)
     /\ player.armor_bonus =
          SumOver([i \in DOMAIN listed |-> UPGRADES[listed[i]].armor_bonus], DOMAIN listed)

\* C37: in every reachable state each player's upgrade list has no
\* duplicates, its attack bonus is the sum of the attack bonuses of the listed
\* upgrades and its armor bonus the sum of their armor bonuses, before and
\* after every step; no step takes a bonus down.
C37_UpgradesAndBonuses ==
  [][ \A p \in Pids :
        /\ C37_Consistent(gs.players[p])
        /\ C37_Consistent(gs'.players[p])
        /\ gs'.players[p].attack_bonus >= gs.players[p].attack_bonus
        /\ gs'.players[p].armor_bonus >= gs.players[p].armor_bonus ]_vars

\* A asked for attack_1 twice in one command: it is listed once and the
\* attack bonus is 2.
C37_Witness ==
  /\ pc = "effects"
  /\ decided["A"] = "sortie_A"
  /\ Len(action["A"].research) = 2
  /\ gs.players["A"].upgrades = <<"attack_1">>
  /\ gs.players["A"].attack_bonus = 2
  /\ gs.players["A"].armor_bonus = 0

\* A player's units of all types in all zones.
C38_Units(player) ==
  LET in_zone(i) ==
        LET there == player.units[ZONES[i]]
        IN there["Villager"] + there["Militia"] + there["Archer"]
             + there["Knight"] + there["Catapult"]
  IN in_zone(1) + in_zone(2) + in_zone(3) + in_zone(4)
       + in_zone(5) + in_zone(6) + in_zone(7) + in_zone(8)

\* The production items of a player that have graduated since the event log
\* was begun.
C38_Graduated(g, pid) ==
  Cardinality({ i \in DOMAIN g.log : g.log[i].kind = "trained" /\ g.log[i].pid = pid })

\* C38: units are conserved.  The effects phase, movement included, leaves
\* each player's total of each unit type over all zones as it was; what combat
\* does to the units in a zone is what combat in that zone alone does to them
\* (nothing where the player has no unit);
\* a player's units are as many as it began with (3 in a new game) plus the
\* production items graduated minus its units_lost; and one player's
\* units_lost is the other's units_killed.
C38_UnitsConserved ==
  [][ \A p \in Pids :
        LET began == Scenarios[scen].gs.players[p]
        IN /\ pc = "validated" /\ pc' = "effects" =>
                 \A u \in UnitTypes :
                   TotalOfType(gs'.players[p], u) = TotalOfType(gs.players[p], u)
           /\ pc = "effects" /\ pc' = "combat" =>
                 \A z \in ZoneSet :
                   gs'.players[p].units[z] =
                     IF Present(gs.players[p], z) = {} THEN gs.players[p].units[z]
                     ELSE resolve_combat(gs, z).players[p].units[z]
           /\ LET units == C38_Units(gs'.players[p])
                  change == C38_Graduated(gs', p) - gs'.players[p].units_lost
              IN /\ units = C38_Units(began) + began.units_lost + change
                 /\ Scenarios[scen].gs = NewGame => units = 3 + change
           /\ gs'.players[p].units_lost = gs'.players[Other(p)].units_killed ]_vars

\* The Militia and the Villager A had queued in turn 45 graduated in turn 46
\* into Base_A, where eight Militia of B stood: both fell and took one
\* Militia with them; A has its 13 units of turn 45 again.
C38_Witness ==
  /\ pc = "combat"
  /\ gs.turn = 46
  /\ Scenarios[scen].gs = Snapshot45
  /\ C38_Graduated(gs, "A") = 2
  /\ gs.players["A"].units_lost = 2 /\ gs.players["B"].units_killed = 2
  /\ gs.players["B"].units_lost = 1 /\ gs.players["A"].units_killed = 1
  /\ C38_Units(gs.players["A"]) = 13
  /\ gs.players["B"].units["Base_A"]["Militia"] = 7

\* Food, wood and gold in a player's ledger, added up.
C39_Ledger(player) == SumOver(player.resources, Resources)

\* The economy income a player has received since the event log was begun.
C39_Received(g, pid) ==
  LET paid == { i \in DOMAIN g.log : g.log[i].kind = "income" /\ g.log[i].pid = pid }
  IN SumOver([i \in paid |-> g.log[i].info[1] + g.log[i].info[2] + g.log[i].info[3]], paid)

\* C39: resources are accounted for.  A player's ledger total is what it
\* began with (400 with nothing banked in a new game) plus the economy income
\* received minus what was banked since; a step other than the economy phase
\* takes from the ledger exactly what it adds to resources_banked; and
\* resources_banked never goes down.
C39_ResourcesAccounted ==
  [][ \A p \in Pids :
        LET began == Scenarios[scen].gs.players[p]
            player == gs.players[p]
            after == gs'.players[p]
        IN /\ C39_Ledger(after) =
                 C39_Ledger(began) + C39_Received(gs', p)
                   - (after.resources_banked - began.resources_banked)
           /\ Scenarios[scen].gs = NewGame =>
                 C39_Ledger(after) = 400 + C39_Received(gs', p) - after.resources_banked
           /\ after.resources_banked >= player.resources_banked
           /\ ~(pc = "idle" /\ pc' = "awaiting") =>
                 C39_Ledger(player) - C39_Ledger(after)
                   = after.resources_banked - player.resources_banked ]_vars

\* In turn 17 A received 82, built a Range and queued a Militia: 140 left
\* the ledger and went to resources_banked.
C39_Witness ==
  /\ pc = "effects"
  /\ gs.turn = 17
  /\ decided["A"] = "build_train"
  /\ C39_Received(gs, "A") = 82
  /\ gs.players["A"].resources = [food |-> 43, wood |-> 130, gold |-> 239]
  /\ gs.players["A"].resources_banked = Snapshot17.players["A"].resources_banked + 140
  /\ C39_Ledger(gs.players["A"]) = C39_Ledger(Snapshot17.players["A"]) + 82 - 140

\* C40: a command whose sanitized task_villagers map is empty leaves the
\* player's stored villager assignment exactly as it was; a non-empty
\* sanitized map takes the place of the stored assignment as a whole, so
\* that a resource kind it does not mention has no villagers afterwards; no
\* other step touches the stored assignment.
C40_AssignmentKeptOrReplaced ==
  [][ \A p \in Pids :
        LET stored == gs.players[p].villager_tasks
            sanitized == action[p].task_villagers
            mentioned == { r \in Resources : sanitized[r] > 0 }
        IN IF pc = "validated" /\ pc' = "effects"
           THEN IF mentioned = {}
                THEN gs'.players[p].villager_tasks = stored
                ELSE \A r \in Resources :
                       gs'.players[p].villager_tasks[r] =
                         IF r \in mentioned THEN sanitized[r] ELSE 0
           ELSE gs'.players[p].villager_tasks = stored ]_vars

\* A, with one Villager left, sent three to food in turn 19: {food: 1} took
\* the place of {food: 3}.  In turn 20, with no Villager left, it sent one to
\* food and one to wood: both counts were scaled to zero and {food: 1} stayed.
C40_Witness ==
  /\ pc = "effects"
  /\ gs.turn = 20
  /\ Scenarios[scen].gs = Snapshot19
  /\ decided["A"] = "task_thin"
  /\ action["A"].task_villagers = [food |-> 0, wood |-> 0, gold |-> 0]
  /\ TotalVillagers(gs.players["A"]) = 0
  /\ gs.players["A"].villager_tasks = [food |-> 1, wood |-> 0, gold |-> 0]
  /\ \E i \in DOMAIN gs.log :
       /\ gs.log[i].kind = "tasked" /\ gs.log[i].pid = "A"
       /\ gs.log[i].turn = 19 /\ gs.log[i].info = <<1, 0, 0>>

====
